---- MODULE Spec2Model ----
(***************************************************************************)
(* Model of the DataTable view-derivation engine of svelte-data-table:     *)
(* the dirty-flag pipeline (filter -> sort -> page slice) and its          *)
(* mutators, as implemented by the id-based DataTable class.               *)
(***************************************************************************)
EXTENDS Integers, Sequences, FiniteSets, TLC

\* The DataTable object.  Its fields are the private fields of the class:
\*   originalData       #originalData, a sequence of rows
\*   columns            #columns, a sequence of column definitions
\*   pageSize           #pageSize
\*   currentPage        #currentPage
\*   sortState          #sortState, [columnId, direction]
\*   filterState        #filterState, column id -> set of values
\*   globalFilter       #globalFilter, a string
\*   globalFilterRegex  #globalFilterRegex, the compiled pattern or null
\*   isFilterDirty      #isFilterDirty
\*   isSortDirty        #isSortDirty
\*   filteredData       #filteredData, the filter cache
\*   sortedData         #sortedData, the sort cache
\* and one field for the engine the object lives in:
\*   host               the Array.prototype.sort of the JavaScript engine
\* In the part on the arrays shared with the caller the variable holds the
\* object together with the array the caller holds: [engine, array, backing,
\* origin].  In the part on the two engines it holds the object of this class
\* and the object of the class without caches, built from the same
\* configuration and given the same calls: [cached, uncached].
VARIABLE table

vars == <<table>>

-----------------------------------------------------------------------------
(* JavaScript values.  A value is a record [t, n, s]: t is the type tag,   *)
(* n the number (for numbers), s the string as a tuple of UTF-16 code      *)
(* units (for strings).                                                    *)

Num(k) == [t |-> "number", n |-> k, s |-> <<>>]
Str(cs) == [t |-> "string", n |-> 0, s |-> cs]
Undefined == [t |-> "undefined", n |-> 0, s |-> <<>>]
Null == [t |-> "null", n |-> 0, s |-> <<>>]

\* the number NaN
NaN == [t |-> "nan", n |-> 0, s |-> <<>>]

\* the null of SortDirection and of sortState.columnId
NULL == "null"

\* #globalFilterRegex = null
NoRegex == [set |-> FALSE, lit |-> <<>>]

IsWhiteSpace(c) == c \in {9, 10, 11, 12, 13, 32}

\* String.prototype.trim() !== '' : some code unit is not white space
TrimNonEmpty(cs) == \E i \in 1..Len(cs) : ~IsWhiteSpace(cs[i])

\* ToNumber of a value: [nan, n].  Strings of the model are letters,
\* punctuation and blanks: blank strings convert to 0, all others to NaN.
ToNumber(v) ==
    CASE v.t = "number" -> [nan |-> FALSE, n |-> v.n]
      [] v.t = "null" -> [nan |-> FALSE, n |-> 0]
      [] v.t = "string" -> [nan |-> TrimNonEmpty(v.s), n |-> 0]
      [] OTHER -> [nan |-> TRUE, n |-> 0]

RECURSIVE StrLt(_, _)
\* code-unit lexicographic order of two strings
StrLt(a, b) ==
    IF b = <<>> THEN FALSE
    ELSE IF a = <<>> THEN TRUE
    ELSE IF a[1] # b[1] THEN a[1] < b[1]
    ELSE StrLt(Tail(a), Tail(b))

\* the < operator of the language (abstract relational comparison)
JsLt(a, b) ==
    IF a.t = "string" /\ b.t = "string" THEN StrLt(a.s, b.s)
    ELSE LET x == ToNumber(a)
             y == ToNumber(b)
         IN  ~x.nan /\ ~y.nan /\ x.n < y.n

\* the > operator of the language
JsGt(a, b) == JsLt(b, a)

\* the >= operator of the language: false when the comparison is undefined (NaN)
JsGe(a, b) ==
    IF a.t = "string" /\ b.t = "string" THEN ~StrLt(a.s, b.s)
    ELSE LET x == ToNumber(a)
             y == ToNumber(b)
         IN  ~x.nan /\ ~y.nan /\ x.n >= y.n

\* a row (an object) as opposed to a primitive value
IsObject(x) == "t" \notin DOMAIN x

\* ToNumber of an operand of an arithmetic operator: an object converts to NaN
ToNumberOf(x) == IF IsObject(x) THEN [nan |-> TRUE, n |-> 0] ELSE ToNumber(x)

\* the binary - operator: a number [nan, n]
JsSub(a, b) ==
    LET x == ToNumberOf(a)
        y == ToNumberOf(b)
    IN  IF x.nan \/ y.nan THEN [nan |-> TRUE, n |-> 0] ELSE [nan |-> FALSE, n |-> x.n - y.n]

\* the === operator: objects by identity, primitives by type and value, NaN
\* equal to nothing
StrictEq(a, b) == IsObject(a) = IsObject(b) /\ a = b /\ a # NaN

\* the property x.f: undefined when x is a primitive
Field(x, f) == IF IsObject(x) THEN x[f] ELSE Undefined

\* String.prototype.localeCompare on strings of ASCII letters of one case pattern
LocaleCompare(a, b) ==
    IF StrLt(a, b) THEN [nan |-> FALSE, n |-> 0 - 1]
    ELSE IF StrLt(b, a) THEN [nan |-> FALSE, n |-> 1] ELSE [nan |-> FALSE, n |-> 0]

-----------------------------------------------------------------------------
(* Regular expressions of the global filter.  The patterns of the model    *)
(* are built from literal characters and parentheses; a pattern whose      *)
(* parentheses do not balance does not compile (SyntaxError).              *)

RECURSIVE ParenDepth(_, _)
\* nesting depth after reading cs starting at depth d; -1 once a ')' is unmatched
ParenDepth(cs, d) ==
    IF d < 0 \/ cs = <<>> THEN d
    ELSE ParenDepth(Tail(cs), IF cs[1] = 40 THEN d + 1
                              ELSE IF cs[1] = 41 THEN d - 1 ELSE d)

RegExpCompiles(cs) == ParenDepth(cs, 0) = 0

\* the literal text a compiled pattern matches: the pattern without its groups' parentheses
RegExpLiteral(cs) == SelectSeq(cs, LAMBDA c : c \notin {40, 41})

\* canonical form of a code unit under the 'i' flag
Canon(c) == IF c >= 97 /\ c <= 122 THEN c - 32 ELSE c

\* RegExp.prototype.test with the 'i' flag: the literal occurs in the string, ignoring case
RegExpTest(lit, cs) ==
    \E off \in 0..(Len(cs) - Len(lit)) :
        \A i \in 1..Len(lit) : Canon(cs[off + i]) = Canon(lit[i])

-----------------------------------------------------------------------------
(* Column registry                                                         *)

UndefinedCol == [id |-> "undefined", key |-> "undefined", sortable |-> "absent",
                 getValue |-> "none", sorter |-> "none", filter |-> "none"]

\* columns.find((col) => col.id === id)
getColumnDef(t, id) ==
    IF \E i \in 1..Len(t.columns) : t.columns[i].id = id
    THEN t.columns[CHOOSE i \in 1..Len(t.columns) :
                      /\ t.columns[i].id = id
                      /\ \A j \in 1..(i - 1) : t.columns[j].id # id]
    ELSE UndefinedCol

\* the getValue accessors the column definitions of the model use
\*   ageGroup   (row) => (row.age < 30 ? 'Young' : 'Adult')
\*   undefIf3   (row) => (row.age === 3 ? undefined : row.age)
\*   age        (row) => row.age
ApplyGetValue(tag, row) ==
    CASE tag = "ageGroup" ->
            IF JsLt(row.age, Num(30)) THEN Str(<<89, 111, 117, 110, 103>>)
            ELSE Str(<<65, 100, 117, 108, 116>>)
      [] tag = "undefIf3" -> IF row.age = Num(3) THEN Undefined ELSE row.age
      [] tag = "age" -> row.age
      [] OTHER -> Undefined

\* the % operator on two numbers, the divisor positive: the sign of the dividend
JsRem(a, b) == IF a >= 0 THEN a % b ELSE 0 - ((0 - a) % b)

\* the custom filter predicates the column definitions of the model use
\*   gte      (value, filterValue) => value >= filterValue
\*   gtEven   (value, filterValue, row) => value > filterValue && row.id % 2 === 0
ApplyFilter(tag, value, filterValue, row) ==
    CASE tag = "gte" -> JsGe(value, filterValue)
      [] tag = "gtEven" -> JsGt(value, filterValue) /\ JsRem(row.id.n, 2) = 0
      [] OTHER -> FALSE

\* the custom sorter functions the column definitions of the model use, applied
\* to the arguments a, b, rowA, rowB; the result is a number [nan, n]
\*   nameReverse  (a, b) => b.name.localeCompare(a.name)
\*   nullsLast    (a, b) => a.age === null ? 1 : b.age === null ? -1 : a.age - b.age
\*   complexSort  (a, b, rowA, rowB) => a === b ? rowA.age - rowB.age : b - a
Sorter(tag, a, b, rowA, rowB) ==
    CASE tag = "nameReverse" -> LocaleCompare(Field(b, "name").s, Field(a, "name").s)
      [] tag = "nullsLast" ->
            IF StrictEq(Field(a, "age"), Null) THEN [nan |-> FALSE, n |-> 1]
            ELSE IF StrictEq(Field(b, "age"), Null) THEN [nan |-> FALSE, n |-> 0 - 1]
            ELSE JsSub(Field(a, "age"), Field(b, "age"))
      [] tag = "complexSort" ->
            IF StrictEq(a, b) THEN JsSub(Field(rowA, "age"), Field(rowB, "age"))
            ELSE JsSub(b, a)
      [] OTHER -> [nan |-> FALSE, n |-> 0]

\* colDef.sorter(a, b): the call of #applySort, with two arguments (the rows);
\* further parameters of the sorter are undefined
ApplySorter(tag, a, b) == Sorter(tag, a, b, Undefined, Undefined)

\* #getValue that reads the raw field of a column that defines getValue
getValue_RawField(t, row, columnId) ==
    LET colDef == getColumnDef(t, columnId)
    IN  IF colDef = UndefinedCol THEN Undefined
        ELSE row[colDef.key]

getValue(t, row, columnId) ==
    LET colDef == getColumnDef(t, columnId)
    IN  IF colDef = UndefinedCol THEN Undefined
        ELSE IF colDef.getValue # "none" THEN ApplyGetValue(colDef.getValue, row)
        ELSE row[colDef.key]

-----------------------------------------------------------------------------
(* Filter stage                                                            *)

matchesGlobalFilter(t, row) ==
    \/ ~t.globalFilterRegex.set
    \/ \E i \in 1..Len(t.columns) :
          LET value == getValue(t, row, t.columns[i].id)
          IN  value.t = "string" /\ RegExpTest(t.globalFilterRegex.lit, value.s)

\* #matchesFilters that combines the columns with OR: one filtered column that
\* accepts the row is enough
matchesFilters_AnyColumn(t, row) ==
    \/ \A columnId \in DOMAIN t.filterState :
          t.filterState[columnId] = {} \/ getColumnDef(t, columnId) = UndefinedCol
    \/ \E columnId \in DOMAIN t.filterState :
          LET filterSet == t.filterState[columnId]
              colDef == getColumnDef(t, columnId)
              value == getValue(t, row, columnId)
          IN  /\ filterSet # {}
              /\ colDef # UndefinedCol
              /\ IF colDef.filter # "none"
                 THEN \E filterValue \in filterSet :
                          ApplyFilter(colDef.filter, value, filterValue, row)
                 ELSE value \in filterSet

\* #matchesFilters that asks every value of the set to satisfy a custom predicate
matchesFilters_EveryValue(t, row) ==
    \A columnId \in DOMAIN t.filterState :
        LET filterSet == t.filterState[columnId]
            colDef == getColumnDef(t, columnId)
            value == getValue(t, row, columnId)
        IN  \/ filterSet = {}
            \/ colDef = UndefinedCol
            \/ IF colDef.filter # "none"
               THEN \A filterValue \in filterSet :
                        ApplyFilter(colDef.filter, value, filterValue, row)
               ELSE value \in filterSet

matchesFilters(t, row) ==
    \A columnId \in DOMAIN t.filterState :
        LET filterSet == t.filterState[columnId]
            colDef == getColumnDef(t, columnId)
            value == getValue(t, row, columnId)
        IN  \/ filterSet = {}
            \/ colDef = UndefinedCol
            \/ IF colDef.filter # "none"
               THEN \E filterValue \in filterSet :
                        ApplyFilter(colDef.filter, value, filterValue, row)
               ELSE value \in filterSet

\* this.#originalData.filter(row => matchesGlobalFilter(row) && matchesFilters(row))
FilterPass(t) ==
    SelectSeq(t.originalData,
              LAMBDA row : matchesGlobalFilter(t, row) /\ matchesFilters(t, row))

\* #applyFilters() that does not mark the sort stage dirty
applyFilters_KeepsSortClean(t) ==
    IF ~t.isFilterDirty THEN t
    ELSE [t EXCEPT !.filteredData = FilterPass(t),
                   !.isFilterDirty = FALSE]

\* #applyFilters() that also resets the page when it runs a filter pass
applyFilters_ResetsPage(t) ==
    IF ~t.isFilterDirty THEN t
    ELSE [t EXCEPT !.filteredData = FilterPass(t),
                   !.isFilterDirty = FALSE,
                   !.isSortDirty = TRUE,
                   !.currentPage = 1]

\* #applyFilters(): the table afterwards
applyFilters(t) ==
    IF ~t.isFilterDirty THEN t
    ELSE [t EXCEPT !.filteredData = FilterPass(t),
                   !.isFilterDirty = FALSE,
                   !.isSortDirty = TRUE]

-----------------------------------------------------------------------------
(* Sort stage                                                              *)

\* the comparator's result as Array.prototype.sort reads it: NaN counts as +0
ToOrder(v) == IF v.nan THEN 0 ELSE v.n

\* the comparator that negates the custom sorter's ascending result for 'desc'
Compare_NegateDesc(t, a, b, columnId, direction) ==
    LET colDef == getColumnDef(t, columnId)
        aVal == getValue(t, a, columnId)
        bVal == getValue(t, b, columnId)
    IN  IF colDef # UndefinedCol /\ colDef.sorter # "none"
        THEN IF direction = "asc" THEN ToOrder(ApplySorter(colDef.sorter, a, b))
             ELSE 0 - ToOrder(ApplySorter(colDef.sorter, a, b))
        ELSE IF JsLt(aVal, bVal) THEN (IF direction = "asc" THEN -1 ELSE 1)
        ELSE IF JsGt(aVal, bVal) THEN (IF direction = "asc" THEN 1 ELSE -1)
        ELSE 0

\* the comparator #applySort hands to Array.prototype.sort
Compare(t, a, b, columnId, direction) ==
    LET colDef == getColumnDef(t, columnId)
        aVal == getValue(t, a, columnId)
        bVal == getValue(t, b, columnId)
    IN  IF colDef # UndefinedCol /\ colDef.sorter # "none"
        THEN IF direction = "asc" THEN ToOrder(ApplySorter(colDef.sorter, a, b))
             ELSE ToOrder(ApplySorter(colDef.sorter, b, a))
        ELSE IF JsLt(aVal, bVal) THEN (IF direction = "asc" THEN -1 ELSE 1)
        ELSE IF JsGt(aVal, bVal) THEN (IF direction = "asc" THEN 1 ELSE -1)
        ELSE 0

\* the pairs of elements of s
Pairs(s) == {s[i] : i \in 1..Len(s)} \X {s[i] : i \in 1..Len(s)}

RECURSIVE SortInsert(_, _, _)
\* insert x into the sorted sequence s behind every element that does not compare greater
SortInsert(s, x, cmp) ==
    IF s = <<>> THEN <<x>>
    ELSE IF cmp[<<s[Len(s)], x>>] > 0
         THEN Append(SortInsert(SubSeq(s, 1, Len(s) - 1), x, cmp), s[Len(s)])
         ELSE Append(s, x)

RECURSIVE InsertionSort(_, _)
\* a sort by straight insertion
InsertionSort(s, cmp) ==
    IF s = <<>> THEN <<>>
    ELSE SortInsert(InsertionSort(SubSeq(s, 1, Len(s) - 1), cmp), s[Len(s)], cmp)

RECURSIVE RunLength(_, _, _, _)
\* the length of the run that starts s, n of its elements already counted: a
\* descending run ends at the first order >= 0, an ascending one at the first < 0
RunLength(s, n, descending, cmp) ==
    IF n >= Len(s) THEN n
    ELSE LET order == cmp[<<s[n + 1], s[n]>>]
         IN  IF (descending /\ order >= 0) \/ (~descending /\ order < 0) THEN n
             ELSE RunLength(s, n + 1, descending, cmp)

Reverse(s) == [i \in 1..Len(s) |-> s[Len(s) + 1 - i]]

RECURSIVE BinarySearch(_, _, _, _, _)
\* the 0-based position of pivot among s[left+1..right]: behind the elements it
\* does not compare smaller than, as far as the bisection sees them
BinarySearch(s, pivot, left, right, cmp) ==
    IF left >= right THEN left
    ELSE LET mid == left + ((right - left) \div 2)
         IN  IF cmp[<<pivot, s[mid + 1]>>] < 0
             THEN BinarySearch(s, pivot, left, mid, cmp)
             ELSE BinarySearch(s, pivot, mid + 1, right, cmp)

RECURSIVE BinaryInsertionSort(_, _, _)
\* s[1..start-1] is sorted: insert s[start], s[start+1], ... by bisection
BinaryInsertionSort(s, start, cmp) ==
    IF start > Len(s) THEN s
    ELSE LET pivot == s[start]
             left == BinarySearch(s, pivot, 0, start - 1, cmp)
         IN  BinaryInsertionSort(
                 SubSeq(s, 1, left) \o <<pivot>> \o SubSeq(s, left + 1, start - 1)
                     \o SubSeq(s, start + 1, Len(s)),
                 start + 1, cmp)

\* the sort of arrays shorter than one minimum run of a run-merging sort: the
\* run that starts the array is found (and reversed when descending), the
\* other elements are inserted by bisection
RunInsertionSort(s, cmp) ==
    IF Len(s) < 2 THEN s
    ELSE LET descending == cmp[<<s[2], s[1]>>] < 0
             run == RunLength(s, 2, descending, cmp)
             made == IF descending
                     THEN Reverse(SubSeq(s, 1, run)) \o SubSeq(s, run + 1, Len(s))
                     ELSE s
         IN  BinaryInsertionSort(made, run + 1, cmp)

\* Array.prototype.sort(cmp) in the engine host; cmp is the comparator as a
\* function of pairs of elements.  The order it leaves is the stable sorted one
\* when cmp is a consistent ordering and depends on the engine's algorithm
\* otherwise
SortBy(host, s, cmp) ==
    IF host = "runs" THEN RunInsertionSort(s, cmp) ELSE InsertionSort(s, cmp)

\* [...data].sort(comparator) of #applySort
ArraySort(t, s, columnId, direction) ==
    SortBy(t.host, s, [p \in Pairs(s) |-> Compare(t, p[1], p[2], columnId, direction)])

\* the value #applySort computes from the filtered data
SortPass(t, data) ==
    IF t.sortState.columnId # NULL /\ t.sortState.direction # NULL
    THEN ArraySort(t, data, t.sortState.columnId, t.sortState.direction)
    ELSE data

\* #applySort() that keeps the old order when there is no active sort
applySort_KeepsOldOrder(t) ==
    IF ~t.isSortDirty THEN t
    ELSE [t EXCEPT !.sortedData = IF t.sortState.columnId # NULL
                                     /\ t.sortState.direction # NULL
                                  THEN SortPass(t, t.filteredData)
                                  ELSE SelectSeq(t.sortedData,
                                                 LAMBDA row :
                                                     \E i \in 1..Len(t.filteredData) :
                                                         t.filteredData[i] = row),
                   !.isSortDirty = FALSE]

\* #applySort(): the table afterwards
applySort(t) ==
    IF ~t.isSortDirty THEN t
    ELSE [t EXCEPT !.sortedData = SortPass(t, t.filteredData),
                   !.isSortDirty = FALSE]

-----------------------------------------------------------------------------
(* Pagination view.  A read accessor is a pair: the value it returns and   *)
(* the table it leaves behind (the caches it has filled).                  *)

Max(a, b) == IF a > b THEN a ELSE b
Min(a, b) == IF a < b THEN a ELSE b

\* a relative index of Array.prototype.slice, resolved against the length
SliceIndex(k, len) == IF k < 0 THEN Max(len + k, 0) ELSE Min(k, len)

\* Array.prototype.slice(start, end), 0-based, end exclusive
ArraySlice(s, start, end) ==
    LET from == SliceIndex(start, Len(s))
        to == SliceIndex(end, Len(s))
    IN  IF to > from THEN SubSeq(s, from + 1, to) ELSE <<>>

\* Math.ceil(n / d) for n >= 0 and d # 0
CeilDiv(n, d) == IF d > 0 THEN (n + d - 1) \div d ELSE 0 - (n \div (0 - d))

\* get rows: the table afterwards
rows_after(t) == applySort(applyFilters(t))

\* get rows with pages that overlap by one row
rows_Overlapping(t) ==
    LET startIndex == (t.currentPage - 1) * (t.pageSize - 1)
        endIndex == startIndex + t.pageSize
    IN  ArraySlice(rows_after(t).sortedData, startIndex, endIndex)

\* get rows: the value returned
rows(t) ==
    LET startIndex == (t.currentPage - 1) * t.pageSize
        endIndex == startIndex + t.pageSize
    IN  ArraySlice(rows_after(t).sortedData, startIndex, endIndex)

\* get totalPages: the table afterwards
totalPages_after(t) == applyFilters(t)

\* get totalPages without the lower bound of 1
totalPages_NoMax(t) == CeilDiv(Len(applyFilters(t).filteredData), t.pageSize)

\* get totalPages: the value returned
totalPages(t) == Max(1, CeilDiv(Len(applyFilters(t).filteredData), t.pageSize))

\* get canGoBack: reads the cache without #applyFilters()
canGoBack(t) == t.currentPage > 1 /\ Len(t.filteredData) > 0

\* get canGoBack: the table afterwards (nothing runs)
canGoBack_after(t) == t

\* get canGoForward: the table afterwards (get totalPages has run)
canGoForward_after(t) == totalPages_after(t)

\* get canGoForward that is also true on the last page
canGoForward_Inclusive(t) ==
    t.currentPage <= totalPages(t) /\ Len(applyFilters(t).filteredData) > 0

\* get canGoForward: the value returned; get totalPages has run #applyFilters() first
canGoForward(t) == t.currentPage < totalPages(t) /\ Len(applyFilters(t).filteredData) > 0

\* getSortState comparing the columns' keys instead of their ids
getSortState_ByKey(t, columnId) ==
    IF /\ t.sortState.columnId # NULL
       /\ \E i, j \in 1..Len(t.columns) :
             /\ t.columns[i].id = t.sortState.columnId
             /\ t.columns[j].id = columnId
             /\ t.columns[i].key = t.columns[j].key
    THEN t.sortState.direction ELSE NULL

\* getSortState(columnId)
getSortState(t, columnId) ==
    IF t.sortState.columnId = columnId THEN t.sortState.direction ELSE NULL

\* isSortable(columnId)
isSortable(t, columnId) == getColumnDef(t, columnId).sortable # "false"

-----------------------------------------------------------------------------
(* Mutators: the table after the call.  A call that raises keeps the       *)
(* assignments made before the fault.                                      *)

\* set currentPage that does not raise a page below 1
set_currentPage_NoLowerClamp(t, page) ==
    [applyFilters(t) EXCEPT !.currentPage = Min(page, totalPages(t))]

\* set currentPage that clamps against the cached filtered rows
set_currentPage_CachedCount(t, page) ==
    [t EXCEPT !.currentPage =
        Max(1, Min(page, Max(1, CeilDiv(Len(t.filteredData), t.pageSize))))]

\* set currentPage(page)
set_currentPage(t, page) ==
    [applyFilters(t) EXCEPT !.currentPage = Max(1, Min(page, totalPages(t)))]

\* set baseRows that forgets to reset the page
set_baseRows_KeepPage(t, newRows) ==
    [t EXCEPT !.originalData = newRows, !.isFilterDirty = TRUE]

\* set baseRows that forgets to mark the filter stage dirty
set_baseRows_NoDirty(t, newRows) ==
    [t EXCEPT !.originalData = newRows, !.currentPage = 1]

\* set baseRows that filters the new rows at once
set_baseRows_Eager(t, newRows) ==
    [t EXCEPT !.originalData = newRows, !.currentPage = 1,
              !.filteredData = FilterPass([t EXCEPT !.originalData = newRows]),
              !.isFilterDirty = FALSE, !.isSortDirty = TRUE]

\* set baseRows(rows)
set_baseRows(t, newRows) ==
    [t EXCEPT !.originalData = newRows, !.currentPage = 1, !.isFilterDirty = TRUE]

\* new RegExp(value, 'i') raises on a malformed pattern
set_globalFilter_raises(value) == TrimNonEmpty(value) /\ ~RegExpCompiles(value)

\* set globalFilter(value)
set_globalFilter(t, value) ==
    IF set_globalFilter_raises(value)
    THEN [t EXCEPT !.globalFilter = value]
    ELSE [t EXCEPT !.globalFilter = value,
                   !.globalFilterRegex = IF TrimNonEmpty(value)
                                         THEN [set |-> TRUE, lit |-> RegExpLiteral(value)]
                                         ELSE NoRegex,
                   !.currentPage = 1,
                   !.isFilterDirty = TRUE]

\* the sort state toggleSort computes
ToggledSortState(t, columnId) ==
    IF t.sortState.columnId = columnId
    THEN [columnId |-> columnId,
          direction |-> IF t.sortState.direction = "asc" THEN "desc"
                        ELSE IF t.sortState.direction = "desc" THEN NULL
                        ELSE "asc"]
    ELSE [columnId |-> columnId, direction |-> "asc"]

\* toggleSort that forgets to mark the sort stage dirty
toggleSort_NoDirty(t, columnId) ==
    LET colDef == getColumnDef(t, columnId)
    IN  IF colDef = UndefinedCol \/ colDef.sortable = "false" THEN t
        ELSE [t EXCEPT !.sortState = ToggledSortState(t, columnId)]

\* toggleSort with a two-state cycle: desc goes back to asc
toggleSort_TwoState(t, columnId) ==
    LET colDef == getColumnDef(t, columnId)
    IN  IF colDef = UndefinedCol \/ colDef.sortable = "false" THEN t
        ELSE [t EXCEPT
                !.isSortDirty = TRUE,
                !.sortState = [columnId |-> columnId,
                               direction |-> IF /\ t.sortState.columnId = columnId
                                                /\ t.sortState.direction = "asc"
                                             THEN "desc" ELSE "asc"]]

\* toggleSort that carries the direction over to a newly selected column
toggleSort_KeepDirection(t, columnId) ==
    LET colDef == getColumnDef(t, columnId)
    IN  IF colDef = UndefinedCol \/ colDef.sortable = "false" THEN t
        ELSE [t EXCEPT
                !.isSortDirty = TRUE,
                !.sortState =
                    IF t.sortState.columnId = columnId THEN ToggledSortState(t, columnId)
                    ELSE [columnId |-> columnId,
                          direction |-> IF t.sortState.direction = "desc"
                                        THEN "desc" ELSE "asc"]]

\* toggleSort that does not look at the sortable flag
toggleSort_IgnoreSortable(t, columnId) ==
    LET colDef == getColumnDef(t, columnId)
    IN  IF colDef = UndefinedCol THEN t
        ELSE [t EXCEPT !.isSortDirty = TRUE,
                       !.sortState = ToggledSortState(t, columnId)]

\* toggleSort that resets the page as the filter mutators do
toggleSort_ResetPage(t, columnId) ==
    LET colDef == getColumnDef(t, columnId)
    IN  IF colDef = UndefinedCol \/ colDef.sortable = "false" THEN t
        ELSE [t EXCEPT !.isSortDirty = TRUE,
                       !.sortState = ToggledSortState(t, columnId),
                       !.currentPage = 1]

\* toggleSort(columnId)
toggleSort(t, columnId) ==
    LET colDef == getColumnDef(t, columnId)
    IN  IF colDef = UndefinedCol \/ colDef.sortable = "false" THEN t
        ELSE [t EXCEPT
                !.isSortDirty = TRUE,
                !.sortState =
                    IF t.sortState.columnId = columnId
                    THEN [columnId |-> columnId,
                          direction |-> IF t.sortState.direction = "asc" THEN "desc"
                                        ELSE IF t.sortState.direction = "desc" THEN NULL
                                        ELSE "asc"]
                    ELSE [columnId |-> columnId, direction |-> "asc"]]

\* { ...this.#filterState, [columnId]: set }
WithFilter(t, columnId, set) ==
    [c \in (DOMAIN t.filterState) \cup {columnId} |->
        IF c = columnId THEN set ELSE t.filterState[c]]

\* new Set(values)
SetOf(values) == {values[i] : i \in 1..Len(values)}

\* setFilter that adds the values to the column's set
setFilter_Adds(t, columnId, values) ==
    [t EXCEPT !.isFilterDirty = TRUE,
              !.filterState =
                  WithFilter(t, columnId,
                             SetOf(values) \cup (IF columnId \in DOMAIN t.filterState
                                                 THEN t.filterState[columnId] ELSE {})),
              !.currentPage = 1]

\* setFilter that also drops the sort
setFilter_ResetsSort(t, columnId, values) ==
    [t EXCEPT !.isFilterDirty = TRUE,
              !.filterState = WithFilter(t, columnId, SetOf(values)),
              !.currentPage = 1,
              !.sortState = [columnId |-> NULL, direction |-> NULL]]

\* setFilter(columnId, values)
setFilter(t, columnId, values) ==
    [t EXCEPT !.isFilterDirty = TRUE,
              !.filterState = WithFilter(t, columnId, SetOf(values)),
              !.currentPage = 1]

\* clearFilter that forgets to reset the page
clearFilter_KeepPage(t, columnId) ==
    [t EXCEPT !.isFilterDirty = TRUE,
              !.filterState = WithFilter(t, columnId, {})]

\* clearFilter(columnId)
clearFilter(t, columnId) ==
    [t EXCEPT !.isFilterDirty = TRUE,
              !.filterState = WithFilter(t, columnId, {}),
              !.currentPage = 1]

\* isFilterActive(columnId, value) raises when #filterState has no entry for columnId
isFilterActive_raises(t, columnId) == columnId \notin DOMAIN t.filterState

\* isFilterActive(columnId, value), when it does not raise: Set.prototype.has
\* finds NaN
isFilterActive(t, columnId, value) == value \in t.filterState[columnId]

\* toggleFilter(columnId, value)
toggleFilter(t, columnId, value) ==
    IF isFilterActive_raises(t, columnId)
    THEN [t EXCEPT !.isFilterDirty = TRUE]
    ELSE [t EXCEPT !.isFilterDirty = TRUE,
                   !.filterState = WithFilter(t, columnId,
                                      IF isFilterActive(t, columnId, value)
                                      THEN {v \in t.filterState[columnId] :
                                               ~StrictEq(v, value)}
                                      ELSE t.filterState[columnId] \cup {value}),
                   !.currentPage = 1]

-----------------------------------------------------------------------------
(* Construction                                                            *)

DefaultPageSize == 10

\* a constructor that takes initialSortDirection even without initialSort
constructor_DirectionAlone(config) ==
    [originalData |-> config.data,
     columns |-> config.columns,
     pageSize |-> IF config.pageSize # 0 THEN config.pageSize ELSE 10,
     currentPage |-> 1,
     sortState |-> [columnId |-> IF config.initialSort # "" THEN config.initialSort ELSE NULL,
                    direction |-> IF config.initialSortDirection # NULL
                                  THEN config.initialSortDirection
                                  ELSE IF config.initialSort # "" THEN "asc" ELSE NULL],
     filterState |-> [id \in {config.columns[i].id : i \in 1..Len(config.columns)} |->
                        IF id \in DOMAIN config.initialFilters
                        THEN {config.initialFilters[id][i] :
                                 i \in 1..Len(config.initialFilters[id])} ELSE {}],
     globalFilter |-> <<>>,
     globalFilterRegex |-> NoRegex,
     isFilterDirty |-> TRUE,
     isSortDirty |-> TRUE,
     filteredData |-> <<>>,
     sortedData |-> <<>>,
     host |-> config.host]

\* a constructor that takes no initialSortDirection: the initial sort ascends
constructor_AlwaysAsc(config) ==
    [originalData |-> config.data,
     columns |-> config.columns,
     pageSize |-> IF config.pageSize # 0 THEN config.pageSize ELSE DefaultPageSize,
     currentPage |-> 1,
     sortState |-> IF config.initialSort # ""
                   THEN [columnId |-> config.initialSort, direction |-> "asc"]
                   ELSE [columnId |-> NULL, direction |-> NULL],
     filterState |-> [id \in {config.columns[i].id : i \in 1..Len(config.columns)} |->
                        IF id \in DOMAIN config.initialFilters
                        THEN {config.initialFilters[id][i] :
                                 i \in 1..Len(config.initialFilters[id])} ELSE {}],
     globalFilter |-> <<>>,
     globalFilterRegex |-> NoRegex,
     isFilterDirty |-> TRUE,
     isSortDirty |-> TRUE,
     filteredData |-> <<>>,
     sortedData |-> <<>>,
     host |-> config.host]

\* the constructor that seeds every filter entry empty
constructor_IgnoresInitialFilters(config) ==
    [originalData |-> config.data,
     columns |-> config.columns,
     pageSize |-> IF config.pageSize # 0 THEN config.pageSize ELSE DefaultPageSize,
     currentPage |-> 1,
     sortState |-> IF config.initialSort # ""
                   THEN [columnId |-> config.initialSort,
                         direction |-> IF config.initialSortDirection # NULL
                                       THEN config.initialSortDirection ELSE "asc"]
                   ELSE [columnId |-> NULL, direction |-> NULL],
     filterState |-> [id \in {config.columns[i].id : i \in 1..Len(config.columns)} |->
                        {}],
     globalFilter |-> <<>>,
     globalFilterRegex |-> NoRegex,
     isFilterDirty |-> TRUE,
     isSortDirty |-> TRUE,
     filteredData |-> <<>>,
     sortedData |-> <<>>,
     host |-> config.host]

\* new DataTable(config); initialSort "" and initialSortDirection NULL stand for
\* an absent (or null) field, pageSize 0 for an absent (or zero) one; config.host
\* is the engine the constructor runs in
constructor(config) ==
    [originalData |-> config.data,
     columns |-> config.columns,
     pageSize |-> IF config.pageSize # 0 THEN config.pageSize ELSE DefaultPageSize,
     currentPage |-> 1,
     sortState |-> IF config.initialSort # ""
                   THEN [columnId |-> config.initialSort,
                         direction |-> IF config.initialSortDirection # NULL
                                       THEN config.initialSortDirection ELSE "asc"]
                   ELSE [columnId |-> NULL, direction |-> NULL],
     filterState |-> [id \in {config.columns[i].id : i \in 1..Len(config.columns)} |->
                        IF id \in DOMAIN config.initialFilters
                        THEN SetOf(config.initialFilters[id]) ELSE {}],
     globalFilter |-> <<>>,
     globalFilterRegex |-> NoRegex,
     isFilterDirty |-> TRUE,
     isSortDirty |-> TRUE,
     filteredData |-> <<>>,
     sortedData |-> <<>>,
     host |-> config.host]

-----------------------------------------------------------------------------
(* The tables and the calls of the model                                   *)

MaxPageSize == 2
MaxPageArg == 4

Row(id, name, age) == [id |-> Num(id), name |-> Str(name), age |-> Num(age)]

\* 'Al', 'Bo', 'Cal'
Al == <<65, 108>>
Bo == <<66, 111>>
Cal == <<67, 97, 108>>

Datasets ==
    { <<Row(1, Al, 30), Row(2, Bo, 25), Row(3, Cal, 30)>>,
      <<Row(4, Bo, 35), Row(5, Al, 25)>> }

Col(id, key, sortable, gv) ==
    [id |-> id, key |-> key, sortable |-> sortable,
     getValue |-> gv, sorter |-> "none", filter |-> "none"]

\* name (not sortable), age, and ageGroup derived from the same key as age
BaseColumns ==
    << Col("name", "name", "false", "none"),
       Col("age", "age", "true", "none"),
       Col("ageGroup", "age", "absent", "ageGroup") >>

NoFilters == [id \in {} |-> <<>>]

Configs ==
    { [data |-> d, columns |-> BaseColumns, pageSize |-> ps,
       initialSort |-> srt[1], initialSortDirection |-> srt[2], initialFilters |-> f,
       host |-> "insertion"] :
        d \in Datasets, ps \in 1..MaxPageSize,
        srt \in {<<"", NULL>>, <<"", "desc">>, <<"age", NULL>>, <<"age", "desc">>},
        f \in {NoFilters, [id \in {"age"} |-> <<Num(30)>>]} }

\* column ids passed to the calls: the registered ones and one that resolves to no column
ColumnIds == {"name", "age", "ageGroup", "nope"}

SetFilterArgs ==
    { <<"age", <<Num(30), Num(30)>> >>, <<"name", <<Str(Al)>> >> }

ClearFilterArgs == {"age", "name"}

ToggleFilterArgs ==
    { <<"name", Str(Al)>>, <<"nope", Num(30)>> }

\* '', 'al', '('
GlobalFilterArgs == { <<>>, <<97, 108>>, <<40>> }

PageArgs == (0 - 1)..MaxPageArg

Init == \E config \in Configs : table = constructor(config)

ReadRows == table' = rows_after(table)

\* reading totalPages, or canGoForward, which reads it
ReadTotalPages == table' = totalPages_after(table)

SetCurrentPage == \E page \in PageArgs : table' = set_currentPage(table, page)

SetBaseRows == \E d \in Datasets : table' = set_baseRows(table, d)

SetGlobalFilter == \E value \in GlobalFilterArgs : table' = set_globalFilter(table, value)

ToggleSort == \E columnId \in ColumnIds : table' = toggleSort(table, columnId)

SetFilter == \E a \in SetFilterArgs : table' = setFilter(table, a[1], a[2])

ClearFilter == \E columnId \in ClearFilterArgs : table' = clearFilter(table, columnId)

ToggleFilter == \E a \in ToggleFilterArgs : table' = toggleFilter(table, a[1], a[2])

Next ==
    \/ ReadRows
    \/ ReadTotalPages
    \/ SetCurrentPage
    \/ SetBaseRows
    \/ SetGlobalFilter
    \/ ToggleSort
    \/ SetFilter
    \/ ClearFilter
    \/ ToggleFilter

Spec == Init /\ [][Next]_vars

-----------------------------------------------------------------------------
(* Tables for the sort stage: tied keys, null and undefined values, custom *)
(* sorters, under both sort algorithms                                     *)

RowOf(id, name, age) == [id |-> Num(id), name |-> Str(name), age |-> age]

ColWith(id, key, gv, sorter, filter) ==
    [id |-> id, key |-> key, sortable |-> "true",
     getValue |-> gv, sorter |-> sorter, filter |-> filter]

\* name; customSort, undefined for the age 3; complexSort, whose sorter takes
\* the values and the rows; nullsLast and nameReverse, whose sorters take the rows
SortColumns ==
    << ColWith("name", "name", "none", "none", "none"),
       ColWith("nameReverse", "name", "none", "nameReverse", "none"),
       ColWith("customSort", "age", "undefIf3", "none", "none"),
       ColWith("complexSort", "age", "age", "complexSort", "none"),
       ColWith("nullsLast", "age", "none", "nullsLast", "none") >>

\* ages 3, 1, 2 with a tied name; ages 9, 1, 3, 5; ages all null
SortDatasets ==
    { <<RowOf(1, Al, Num(3)), RowOf(2, Bo, Num(1)), RowOf(3, Al, Num(2))>>,
      <<RowOf(1, Al, Num(9)), RowOf(2, Bo, Num(1)), RowOf(3, Al, Num(3)),
        RowOf(4, Bo, Num(5))>>,
      <<RowOf(1, Al, Null), RowOf(2, Bo, Null), RowOf(3, Cal, Null)>> }

SortHosts == {"insertion", "runs"}

\* the page size of these tables
SortPageSize == 2

\* without an initial sort, or with one on an id that resolves to no column
SortConfigs ==
    { [data |-> d, columns |-> SortColumns, pageSize |-> SortPageSize,
       initialSort |-> srt, initialSortDirection |-> NULL, initialFilters |-> NoFilters,
       host |-> h] :
        d \in SortDatasets, srt \in {"", "nope"}, h \in SortHosts }

SortColumnIds == {"name", "nameReverse", "customSort", "complexSort", "nullsLast", "nope"}

SortInit == \E config \in SortConfigs : table = constructor(config)

SortSetBaseRows ==
    table' = set_baseRows(table, <<RowOf(1, Al, Num(3)), RowOf(2, Bo, Num(1)),
                                   RowOf(3, Al, Num(2))>>)

SortToggleSort == \E columnId \in SortColumnIds : table' = toggleSort(table, columnId)

SortSetFilter == table' = setFilter(table, "customSort", <<Num(3), Num(1)>>)

SortClearFilter == table' = clearFilter(table, "customSort")

SortToggleFilter == table' = toggleFilter(table, "customSort", Num(3))

\* 'bo'
SortSetGlobalFilter == table' = set_globalFilter(table, <<98, 111>>)

SortNext ==
    \/ ReadRows
    \/ ReadTotalPages
    \/ SetCurrentPage
    \/ SortSetBaseRows
    \/ SortSetGlobalFilter
    \/ SortToggleSort
    \/ SortSetFilter
    \/ SortClearFilter
    \/ SortToggleFilter

SortSpec == SortInit /\ [][SortNext]_vars

-----------------------------------------------------------------------------
(* Tables for the filter stage: plain and custom column filters, filter    *)
(* entries under an id that resolves to no column, no rows at all, default *)
(* and negative page sizes                                                 *)

\* name and age; evenAbove, on the key of age, with a custom filter
FilterColumns ==
    << ColWith("name", "name", "none", "none", "none"),
       ColWith("age", "age", "none", "none", "none"),
       ColWith("evenAbove", "age", "none", "none", "gtEven") >>

\* four rows, one of them without a string in any column
FilterRows ==
    << RowOf(1, Al, Num(30)), [id |-> Num(2), name |-> Null, age |-> Num(25)],
       RowOf(3, Cal, Num(30)), RowOf(4, Bo, Num(26)) >>

\* 2, and a negative one
FilterPageSizes == {2, 0 - 1}

FilterConfigs ==
    { [data |-> d, columns |-> FilterColumns, pageSize |-> ps,
       initialSort |-> "", initialSortDirection |-> NULL, initialFilters |-> NoFilters,
       host |-> "runs"] :
        d \in {FilterRows, <<>>}, ps \in FilterPageSizes }

FilterColumnIds == {"name", "age", "evenAbove", "nope"}

FilterSetFilterArgs ==
    { <<"age", <<Num(30), Num(25)>> >>, <<"evenAbove", <<Num(25), Num(29)>> >>,
      <<"nope", <<Num(30)>> >> }

FilterInit == \E config \in FilterConfigs : table = constructor(config)

\* the rows are replaced by none
FilterSetBaseRows == table' = set_baseRows(table, <<>>)

FilterToggleSort == table' = toggleSort(table, "age")

FilterSetFilter == \E a \in FilterSetFilterArgs : table' = setFilter(table, a[1], a[2])

FilterClearFilter == \E columnId \in {"age", "evenAbove"} : table' = clearFilter(table, columnId)

FilterToggleFilter == table' = toggleFilter(table, "name", Str(Al))

\* 'al'
FilterSetGlobalFilter == table' = set_globalFilter(table, <<97, 108>>)

FilterNext ==
    \/ ReadRows
    \/ ReadTotalPages
    \/ SetCurrentPage
    \/ FilterSetBaseRows
    \/ FilterSetGlobalFilter
    \/ FilterToggleSort
    \/ FilterSetFilter
    \/ FilterClearFilter
    \/ FilterToggleFilter

FilterSpec == FilterInit /\ [][FilterNext]_vars

-----------------------------------------------------------------------------
(* Properties                                                              *)

\* the view recomputed from scratch: the raw rows filtered by the current
\* filters, then ordered by the current sort state
FreshView(t) == SortPass(t, FilterPass(t))

\* the elements of s at the 0-based positions p with lo <= p < hi
Positions(s, lo, hi) ==
    LET top == Min(hi, Len(s))
    IN  IF top > lo THEN [i \in 1..(top - lo) |-> s[lo + i]] ELSE <<>>

\* the page of the fresh view that currentPage selects
FreshPage(t) ==
    Positions(FreshView(t), (t.currentPage - 1) * t.pageSize, t.currentPage * t.pageSize)

\* C1: in every reachable state, whatever mutators and reads led to it, get rows
\* returns the elements at positions (currentPage-1)*pageSize up to (not
\* including) currentPage*pageSize of the raw rows filtered by the current
\* filters and ordered by the current sort state; no stale cache is returned.
C1_RowsAreFreshPage == rows(table) = FreshPage(table)

\* a read of page 2 of a filtered, descending view has happened and is cached
C1_Witness ==
    /\ ~table.isFilterDirty /\ ~table.isSortDirty
    /\ table.currentPage = 2
    /\ table.sortState.direction = "desc"
    /\ table.globalFilterRegex.set
    /\ Len(rows(table)) > 0
    /\ table.sortedData # table.originalData

\* C2: with a positive pageSize, 1 <= currentPage <= totalPages in every
\* reachable state.
C2_PageInBounds ==
    table.pageSize > 0 =>
        (1 <= table.currentPage /\ table.currentPage <= totalPages(table))

\* the last page of a filtered table has been selected
C2_Witness ==
    /\ table.currentPage = 2 /\ totalPages(table) = 2
    /\ table.filterState["age"] = {Num(30)}
    /\ Len(table.originalData) = 3

\* C3 as stated: direction is null if and only if columnId is null.
C3_Original == (table.sortState.direction = NULL) <=> (table.sortState.columnId = NULL)

\* C3 (amended): whenever columnId is null, direction is null.  The converse
\* fails: the third toggle on a column leaves {columnId: c, direction: null}.
C3_NullColumnNullDirection ==
    (table.sortState.columnId = NULL) => (table.sortState.direction = NULL)

\* a table that has no sort column, after filter calls and a read
C3_Witness ==
    /\ table.sortState.columnId = NULL
    /\ table.filterState["age"] # {}
    /\ ~table.isFilterDirty /\ ~table.isSortDirty

\* a column that toggleSort acts on: registered and not marked sortable: false
Sortable(t, columnId) ==
    getColumnDef(t, columnId) # UndefinedCol /\ getColumnDef(t, columnId).sortable # "false"

\* no active sort: no sort column, or a cleared direction
NoActiveSort(t) == t.sortState.columnId = NULL \/ t.sortState.direction = NULL

MaxToggles == 10

RECURSIVE ToggleTimes(_, _, _)
\* the table after n calls in a row of toggleSort(columnId)
ToggleTimes(t, columnId, n) ==
    IF n = 0 THEN t ELSE toggleSort(ToggleTimes(t, columnId, n - 1), columnId)

\* C4: from any reachable state with no active sort, n calls in a row of
\* toggleSort(c) on a sortable column c leave getSortState(c) at 'asc' when
\* n mod 3 = 1, 'desc' when n mod 3 = 2 and null when n mod 3 = 0.
C4_ToggleCycle ==
    \A c \in ColumnIds :
        (Sortable(table, c) /\ NoActiveSort(table)) =>
            \A n \in 1..MaxToggles :
                getSortState(ToggleTimes(table, c, n), c) =
                    (CASE n % 3 = 1 -> "asc" [] n % 3 = 2 -> "desc" [] OTHER -> NULL)

\* the toggle after 'desc' has cleared the direction of column age: the sort
\* cache still holds the descending order that was read before it
C4_Witness ==
    /\ table.sortState = [columnId |-> "age", direction |-> NULL]
    /\ table.isSortDirty /\ ~table.isFilterDirty
    /\ table.sortedData = ArraySort(table, table.filteredData, "age", "desc")
    /\ table.sortedData # table.filteredData

\* C5: toggleSort(c) on a sortable column c that is not the current sort column
\* sets the sort state to {columnId: c, direction: 'asc'}, whatever it was.
C5_OtherColumnStartsAsc ==
    \A c \in ColumnIds :
        (Sortable(table, c) /\ table.sortState.columnId # c) =>
            toggleSort(table, c).sortState = [columnId |-> c, direction |-> "asc"]

\* ageGroup has just been toggled while age was sorted descending: the sort
\* cache still holds the order by age
C5_Witness ==
    /\ table.sortState = [columnId |-> "ageGroup", direction |-> "asc"]
    /\ table.isSortDirty /\ ~table.isFilterDirty
    /\ table.sortedData = ArraySort(table, table.filteredData, "age", "desc")
    /\ table.sortedData # table.filteredData

\* C6: toggleSort(c) changes nothing when c is not sortable or resolves to no
\* column: sort state, getSortState of every column, currentPage, the dirty
\* flags and the rows read afterwards stay as they were.
C6_UnsortableToggleIsNoOp ==
    \A c \in ColumnIds :
        ~Sortable(table, c) =>
            LET u == toggleSort(table, c)
            IN  /\ u.sortState = table.sortState
                /\ \A d \in ColumnIds : getSortState(u, d) = getSortState(table, d)
                /\ u.currentPage = table.currentPage
                /\ u.isFilterDirty = table.isFilterDirty
                /\ u.isSortDirty = table.isSortDirty
                /\ rows(u) = rows(table)
                /\ u = table

\* a state with an active sort, clean caches and a later page, in which a call
\* that were not a no-op would show
C6_Witness ==
    /\ table.sortState.direction = "desc"
    /\ ~table.isSortDirty /\ ~table.isFilterDirty
    /\ table.currentPage = 2
    /\ \E c \in ColumnIds : getColumnDef(table, c) = UndefinedCol
    /\ \E c \in ColumnIds : getColumnDef(table, c).sortable = "false"

\* two registered columns with different ids and the same key
SharedKey(t, c, d) ==
    /\ c # d
    /\ getColumnDef(t, c) # UndefinedCol /\ getColumnDef(t, d) # UndefinedCol
    /\ getColumnDef(t, c).key = getColumnDef(t, d).key

\* C7 as stated: toggling sort on one of two columns that share a key never
\* changes getSortState of the other.
C7_Original ==
    \A c, d \in ColumnIds :
        SharedKey(table, c, d) =>
            getSortState(toggleSort(table, c), d) = getSortState(table, d)

\* C7 (amended): toggling sort on one of two columns that share a key leaves
\* getSortState of the other null: unchanged when the other was not the active
\* sort column, reset to null when it was.
C7_OtherColumnNull ==
    \A c, d \in ColumnIds :
        (SharedKey(table, c, d) /\ Sortable(table, c)) =>
            LET u == toggleSort(table, c)
            IN  /\ getSortState(u, d) = NULL
                /\ (table.sortState.columnId # d =>
                        getSortState(u, d) = getSortState(table, d))

\* age is sorted descending while ageGroup, on the same key, is not
C7_Witness ==
    /\ table.sortState = [columnId |-> "age", direction |-> "desc"]
    /\ SharedKey(table, "age", "ageGroup")
    /\ getSortState(table, "ageGroup") = NULL
    /\ ~table.isSortDirty

\* the values passed to the filter calls
FilterValues == {Num(30), Num(25), Str(Al)}

\* C8 as stated: every call of setFilter, clearFilter, toggleFilter or set
\* globalFilter leaves currentPage equal to 1.
C8_Original ==
    /\ \A c \in ColumnIds, v \in FilterValues :
          /\ setFilter(table, c, <<v>>).currentPage = 1
          /\ clearFilter(table, c).currentPage = 1
          /\ toggleFilter(table, c, v).currentPage = 1
    /\ \A value \in GlobalFilterArgs : set_globalFilter(table, value).currentPage = 1

\* C8 (amended): every call of setFilter, clearFilter, toggleFilter or set
\* globalFilter that returns leaves currentPage equal to 1; a call that raises
\* (toggleFilter on an id without a filter entry, set globalFilter with a
\* malformed pattern) leaves currentPage as it was.
C8_ReturningCallResetsPage ==
    /\ \A c \in ColumnIds, v \in FilterValues :
          /\ setFilter(table, c, <<v>>).currentPage = 1
          /\ clearFilter(table, c).currentPage = 1
          /\ toggleFilter(table, c, v).currentPage =
                IF isFilterActive_raises(table, c) THEN table.currentPage ELSE 1
    /\ \A value \in GlobalFilterArgs :
          set_globalFilter(table, value).currentPage =
                IF set_globalFilter_raises(value) THEN table.currentPage ELSE 1

\* a later page is selected, so the reset shows; some calls change the rows
\* that pass and some do not
C8_Witness ==
    /\ table.currentPage = 3
    /\ FilterPass(setFilter(table, "age", <<Num(30)>>)) # FilterPass(table)
    /\ FilterPass(clearFilter(table, "age")) = FilterPass(table)

\* C9: toggleSort leaves currentPage, the filter state, the global filter, the
\* raw rows and totalPages unchanged, and the rows that pass the filters too.
C9_ToggleSortFrame ==
    \A c \in ColumnIds :
        LET u == toggleSort(table, c)
        IN  /\ u.currentPage = table.currentPage
            /\ u.filterState = table.filterState
            /\ u.globalFilter = table.globalFilter
            /\ u.globalFilterRegex = table.globalFilterRegex
            /\ u.originalData = table.originalData
            /\ totalPages(u) = totalPages(table)
            /\ FilterPass(u) = FilterPass(table)

\* the sort has been toggled from 'asc' to 'desc' on page 2 (the sort cache
\* still holds the ascending order): the page has stayed
C9_Witness ==
    /\ table.currentPage = 2
    /\ table.isSortDirty /\ ~table.isFilterDirty
    /\ table.sortState = [columnId |-> "age", direction |-> "desc"]
    /\ table.sortedData = ArraySort(table, table.filteredData, "age", "asc")
    /\ table.sortedData # FreshView(table)

\* C10: baseRows = d replaces the raw rows, sets currentPage to 1, marks the
\* filter stage dirty and leaves the sort state, the filter sets and the global
\* filter unchanged; the next read of rows is page 1 of d filtered and sorted
\* under those criteria.
C10_SetBaseRows ==
    \A d \in Datasets :
        LET u == set_baseRows(table, d)
        IN  /\ u.originalData = d
            /\ u.currentPage = 1
            /\ u.isFilterDirty
            /\ u.sortState = table.sortState
            /\ u.filterState = table.filterState
            /\ u.globalFilter = table.globalFilter
            /\ u.globalFilterRegex = table.globalFilterRegex
            /\ rows(u) = Positions(FreshView([table EXCEPT !.originalData = d]),
                                   0, table.pageSize)

\* new rows have been assigned over a cached view of the old ones, with a sort
\* and a filter in force
C10_Witness ==
    /\ table.isFilterDirty
    /\ table.currentPage = 1
    /\ Len(table.filteredData) > 0
    /\ \A i \in 1..Len(table.originalData) : table.originalData[i] # table.filteredData[1]
    /\ table.sortState.direction # NULL
    /\ table.filterState["name"] # {}

-----------------------------------------------------------------------------
(* Properties of the filter stage                                          *)

\* the ids of the registered columns
RegisteredIds(t) == {t.columns[i].id : i \in 1..Len(t.columns)}

\* the rows that pass, as the next read computes or finds them cached
PassingRows(t) == applyFilters(t).filteredData

\* the rows that pass when column c's filter set is emptied
PassingWithout(t, c) == PassingRows([t EXCEPT !.filterState[c] = {}, !.isFilterDirty = TRUE])

\* C11: for a column without a custom filter predicate, the rows that pass
\* are the rows that pass the other filters and whose resolved value for the
\* column is a member of its filter set; an empty set restricts nothing; the
\* columns combine with AND (each filtered column restricts the rows the
\* others let pass).
C11_PlainColumnFilters ==
    \A c \in RegisteredIds(table) :
        getColumnDef(table, c).filter = "none" =>
            PassingRows(table) =
                IF table.filterState[c] = {} THEN PassingWithout(table, c)
                ELSE SelectSeq(PassingWithout(table, c),
                               LAMBDA row : getValue(table, row, c) \in table.filterState[c])

\* two plain columns are filtered at once and each one rejects a row the other
\* accepts, a filter entry under an unregistered id is set, and the result has
\* been read
C11_Witness ==
    /\ table.filterState["age"] = {Num(30), Num(25)}
    /\ table.filterState["name"] = {Str(Al)}
    /\ table.filterState["evenAbove"] = {}
    /\ "nope" \in DOMAIN table.filterState /\ table.filterState["nope"] # {}
    /\ ~table.isFilterDirty
    /\ Len(table.filteredData) = 1
    /\ Len(PassingWithout(table, "age")) = 1
    /\ Len(PassingWithout(table, "name")) = 3

\* C12: for a column with a custom filter predicate and a non-empty filter
\* set, the rows that pass are the rows that pass the other filters and for
\* which filter(value, filterValue, row) is true for at least one filterValue
\* of the set, value being the row's resolved value and row the full row.
C12_CustomColumnFilter ==
    \A c \in RegisteredIds(table) :
        (getColumnDef(table, c).filter # "none" /\ table.filterState[c] # {}) =>
            PassingRows(table) =
                SelectSeq(PassingWithout(table, c),
                          LAMBDA row :
                              \E filterValue \in table.filterState[c] :
                                  ApplyFilter(getColumnDef(table, c).filter,
                                              getValue(table, row, c), filterValue, row))

\* the custom filter is set to two thresholds: a row satisfies it for one of
\* them only, and a row above both thresholds fails on its id
C12_Witness ==
    /\ table.filterState["evenAbove"] = {Num(25), Num(29)}
    /\ ~table.isFilterDirty
    /\ \E i \in 1..Len(table.filteredData) :
          LET row == table.filteredData[i]
          IN  /\ ApplyFilter("gtEven", row.age, Num(25), row)
              /\ ~ApplyFilter("gtEven", row.age, Num(29), row)
    /\ \E i \in 1..Len(table.originalData) :
          LET row == table.originalData[i]
          IN  JsGt(row.age, Num(29)) /\ ~ApplyFilter("gtEven", row.age, Num(29), row)

\* the string cs matches the pattern compiled from the string p
PatternMatches(p, cs) == RegExpCompiles(p) /\ RegExpTest(RegExpLiteral(p), cs)

\* C13: a row passes the global filter if and only if the global filter string
\* is empty or whitespace-only, or the resolved value of at least one
\* registered column is a string that matches the pattern; a row whose
\* resolved values are all non-strings never passes a non-empty global filter.
C13_Original ==
    \A i \in 1..Len(table.originalData) :
        LET row == table.originalData[i]
        IN  matchesGlobalFilter(table, row) <=>
                \/ ~TrimNonEmpty(table.globalFilter)
                \/ \E c \in RegisteredIds(table) :
                      LET value == getValue(table, row, c)
                      IN  value.t = "string" /\ PatternMatches(table.globalFilter, value.s)

-----------------------------------------------------------------------------
(* Properties of the sort stage                                            *)

RECURSIVE PagesFrom(_, _)
\* the rows of page p, of page p + 1, ... up to the last page, one after the other
PagesFrom(t, p) ==
    IF p > totalPages(t) THEN <<>>
    ELSE rows(set_currentPage(t, p)) \o PagesFrom(t, p + 1)

\* rows read across the pages
ReadAcrossPages(t) == PagesFrom(t, 1)

\* the position of row x in s
Pos(s, x) == CHOOSE i \in 1..Len(s) : s[i] = x

\* an active sort: a sort column and a direction
ActiveSort(t) == t.sortState.columnId # NULL /\ t.sortState.direction # NULL

\* rows a and b compare equal under the active comparator
Tied(t, a, b) ==
    /\ Compare(t, a, b, t.sortState.columnId, t.sortState.direction) = 0
    /\ Compare(t, b, a, t.sortState.columnId, t.sortState.direction) = 0

\* C14: sorting is stable in both directions: two rows that compare equal under
\* the active comparator (tied keys, both values null, incomparable values)
\* have in rows, read across the pages, the relative order they have in the
\* filtered sequence, which is the raw insertion order; a column whose values
\* are all null leaves the order unchanged.
C14_Original ==
    ActiveSort(table) =>
        LET F == PassingRows(table)
            R == ReadAcrossPages(table)
            c == table.sortState.columnId
        IN  /\ Len(R) = Len(F)
            /\ \A i, j \in 1..Len(F) :
                  i < j => Pos(table.originalData, F[i]) < Pos(table.originalData, F[j])
            /\ \A i, j \in 1..Len(F) :
                  (i < j /\ Tied(table, F[i], F[j])) => Pos(R, F[i]) < Pos(R, F[j])
            /\ (/\ getColumnDef(table, c) # UndefinedCol
                /\ getColumnDef(table, c).sorter = "none"
                /\ \A i \in 1..Len(F) : getValue(table, F[i], c) = Null) => R = F

\* the sort column's definition, when a sort is active
SortColDef(t) == getColumnDef(t, t.sortState.columnId)

\* an active sort on a registered column that defines a custom sorter
CustomSort(t) ==
    ActiveSort(t) /\ SortColDef(t) # UndefinedCol /\ SortColDef(t).sorter # "none"

\* sorter(valueA, valueB, rowA, rowB): the sorter applied to the resolved values
\* of rows a and b and to the rows themselves
SorterOnValues(t, a, b) ==
    LET c == t.sortState.columnId
    IN  Sorter(SortColDef(t).sorter, getValue(t, a, c), getValue(t, b, c), a, b)

\* C15: when the active sort column defines a custom sorter, every comparison
\* of two rows rowA and rowB calls it as sorter(valueA, valueB, rowA, rowB):
\* the comparator's result for the two rows is the result of that call (of the
\* call with the rows swapped, descending), and rows is the filtered sequence
\* sorted by it.
C15_Original ==
    CustomSort(table) =>
        LET F == PassingRows(table)
            asc == table.sortState.direction = "asc"
            cmp == [p \in Pairs(F) |->
                       IF asc THEN ToOrder(SorterOnValues(table, p[1], p[2]))
                       ELSE ToOrder(SorterOnValues(table, p[2], p[1]))]
        IN  /\ \A p \in Pairs(F) :
                  Compare(table, p[1], p[2], table.sortState.columnId,
                          table.sortState.direction) = cmp[p]
            /\ ReadAcrossPages(table) = SortBy(table.host, F, cmp)

\* the custom sorter called on rows b, a: the operands swapped
SwappedOrder(t, p) == ToOrder(ApplySorter(SortColDef(t).sorter, p[2], p[1]))

\* the custom sorter called on rows a, b, the sign of the result negated
NegatedOrder(t, p) == 0 - ToOrder(ApplySorter(SortColDef(t).sorter, p[1], p[2]))

DefaultAscSort(t) ==
    /\ ActiveSort(t) /\ t.sortState.direction = "asc"
    /\ SortColDef(t) # UndefinedCol /\ SortColDef(t).sorter = "none"

\* C17: when sorting ascending on a column without a custom sorter whose
\* resolved value is undefined for some rows, the rows with defined values
\* come first, in ascending order of value, and the rows with an undefined
\* value come after them.
C17_Original ==
    LET c == table.sortState.columnId
        R == ReadAcrossPages(table)
    IN  (/\ DefaultAscSort(table)
         /\ \E i \in 1..Len(R) : getValue(table, R[i], c) = Undefined) =>
            \A i, j \in 1..Len(R) :
                i < j =>
                    LET vi == getValue(table, R[i], c)
                        vj == getValue(table, R[j], c)
                    IN  /\ vi = Undefined => vj = Undefined
                        /\ (vi # Undefined /\ vj # Undefined) => ~JsGt(vi, vj)

\* the resolved value the claim describes: getValue(row) of the first column
\* registered with the id when it defines getValue, row[key] when it does not,
\* undefined when no column has the id
Resolved(t, row, c) ==
    IF c \notin RegisteredIds(t) THEN Undefined
    ELSE LET i == CHOOSE k \in 1..Len(t.columns) :
                      /\ t.columns[k].id = c
                      /\ \A j \in 1..(k - 1) : t.columns[j].id # c
         IN  IF t.columns[i].getValue # "none"
             THEN ApplyGetValue(t.columns[i].getValue, row)
             ELSE row[t.columns[i].key]

\* the order of two resolved values under < and >
ValueOrder(va, vb, direction) ==
    IF JsLt(va, vb) THEN (IF direction = "asc" THEN 0 - 1 ELSE 1)
    ELSE IF JsGt(va, vb) THEN (IF direction = "asc" THEN 1 ELSE 0 - 1)
    ELSE 0

-----------------------------------------------------------------------------
(* Properties of the pagination                                            *)

\* filteredCount: the number of raw rows that pass the current filters
FilteredCount(t) ==
    Cardinality({i \in 1..Len(t.originalData) :
                    matchesGlobalFilter(t, t.originalData[i])
                        /\ matchesFilters(t, t.originalData[i])})

\* max(1, ceil(count / size)): for a positive size the least k >= 1 with
\* k * size >= count; for a negative size the quotient is not positive
PageCount(count, size) ==
    IF size > 0 THEN CHOOSE k \in 1..Max(1, count) :
                         /\ k * size >= count
                         /\ \A m \in 1..(k - 1) : m * size < count
    ELSE 1

\* C19: totalPages equals max(1, ceil(filteredCount / pageSize)), filteredCount
\* being the number of raw rows that pass the current filters; it is never 0,
\* and it is 1 when no row passes or when there are no raw rows.
C19_TotalPages ==
    /\ totalPages(table) = PageCount(FilteredCount(table), table.pageSize)
    /\ totalPages(table) >= 1
    /\ FilteredCount(table) = 0 => totalPages(table) = 1
    /\ table.originalData = <<>> => totalPages(table) = 1

\* the filters of two columns together reject every one of the raw rows, the
\* result has been computed, and the page size is positive
C19_Witness ==
    /\ table.originalData # <<>> /\ table.pageSize > 0
    /\ table.filterState["age"] # {} /\ table.filterState["evenAbove"] # {}
    /\ ~table.isFilterDirty /\ table.filteredData = <<>>
    /\ Len(PassingWithout(table, "age")) > 0
    /\ totalPages(table) = 1

\* C20: assigning currentPage = n, for any integer n, stores
\* min(max(n, 1), totalPages): values below 1 become 1, values above
\* totalPages become totalPages, values in range are stored unchanged; the
\* assignment changes nothing else but the cache of the filter stage.
C20_SetCurrentPageClamps ==
    \A n \in PageArgs :
        LET after == set_currentPage(table, n)
            tp == PageCount(FilteredCount(table), table.pageSize)
        IN  /\ after.currentPage = Min(Max(n, 1), tp)
            /\ n < 1 => after.currentPage = 1
            /\ n > tp => after.currentPage = tp
            /\ (1 <= n /\ n <= tp) => after.currentPage = n
            /\ after = [applyFilters(table) EXCEPT !.currentPage = after.currentPage]

\* under a column filter that leaves two pages, the page has been set to the
\* last one, and a page above it, zero and a negative page are among the
\* arguments
C20_Witness ==
    /\ table.filterState["age"] = {Num(30), Num(25)}
    /\ table.pageSize = 2 /\ totalPages(table) = 2
    /\ table.currentPage = 2
    /\ {0 - 1, 0, 3} \subseteq PageArgs
    /\ set_currentPage(table, 3).currentPage = 2
    /\ set_currentPage(table, 0).currentPage = 1

\* C21: in every reachable state, also directly after a mutator with no other
\* read in between, canGoBack is true exactly when currentPage > 1 and the
\* currently filtered result is non-empty, and canGoForward is true exactly
\* when currentPage < totalPages and the currently filtered result is
\* non-empty; both are false whenever no row passes the current filters.
C21_Navigation ==
    LET count == FilteredCount(table)
        tp == PageCount(count, table.pageSize)
    IN  /\ canGoBack(table) <=> (table.currentPage > 1 /\ count > 0)
        /\ canGoForward(table) <=> (table.currentPage < tp /\ count > 0)
        /\ count = 0 => (~canGoBack(table) /\ ~canGoForward(table))

\* directly after a mutator: the filter cache is stale, holding the rows of
\* an earlier filter, more than pass now, and canGoForward is true
C21_Witness ==
    /\ table.isFilterDirty
    /\ table.filteredData # <<>>
    /\ Len(table.filteredData) > FilteredCount(table)
    /\ canGoForward(table) /\ ~canGoBack(table)

-----------------------------------------------------------------------------
(* Properties of the read accessors                                        *)

\* what the caller has set: the page, the sort state, the filter state, the
\* global filter and the raw rows
Settings(t) ==
    [currentPage |-> t.currentPage, sortState |-> t.sortState,
     filterState |-> t.filterState, globalFilter |-> t.globalFilter,
     globalFilterRegex |-> t.globalFilterRegex, originalData |-> t.originalData]

\* the tables the read accessors leave behind: rows, totalPages, canGoBack,
\* canGoForward; currentPage, baseRows, filterState, sortState and
\* globalFilter return a field and run nothing
AfterReads(t) == {rows_after(t), totalPages_after(t), canGoBack_after(t), canGoForward_after(t), t}

\* C22: reading rows or totalPages twice in a row with no mutator in between
\* returns identical results, and no read accessor changes currentPage, the
\* sort state, the filter state, the global filter or the raw rows.
C22_ReadsChangeNothing ==
    /\ rows(rows_after(table)) = rows(table)
    /\ totalPages(totalPages_after(table)) = totalPages(table)
    /\ \A after \in AfterReads(table) :
          /\ Settings(after) = Settings(table)
          /\ rows(after) = rows(table)
          /\ totalPages(after) = totalPages(table)

\* a first read after a mutation: both caches are stale, the read fills them
\* with several rows in another order than the raw rows, on a page after the
\* first
C22_Witness ==
    /\ table.isFilterDirty /\ table.isSortDirty
    /\ table.currentPage > 1
    /\ rows_after(table).sortedData # table.sortedData
    /\ rows_after(table).sortedData # table.originalData
    /\ rows(table) # <<>>

\* one raw row more than the default page size
ManyRows == [i \in 1..(DefaultPageSize + 1) |-> RowOf(i, Al, Num(i))]

\* new DataTable({ data: ManyRows, columns, pageSize: 0 })
ZeroPageSizeTable ==
    constructor([data |-> ManyRows, columns |-> FilterColumns, pageSize |-> 0,
                 initialSort |-> "", initialSortDirection |-> NULL,
                 initialFilters |-> NoFilters, host |-> "runs"])

\* rows on page 1 contains every filtered row, in the order of the view, and
\* totalPages is 1
Unbounded(t) ==
    /\ totalPages(t) = 1
    /\ t.currentPage = 1 => rows(t) = rows_after(t).sortedData
    /\ Len(rows_after(t).sortedData) = FilteredCount(t)

\* C23: a table constructed with pageSize zero or negative treats the page
\* size as unbounded: for any number of raw rows, rows on page 1 contains
\* every filtered row and totalPages is 1.
C23_Original ==
    /\ table.pageSize < 0 => Unbounded(table)
    /\ Unbounded(ZeroPageSizeTable)

-----------------------------------------------------------------------------
(* Properties of the filter mutators                                       *)

\* the calls of setFilter, clearFilter and toggleFilter leave the filter
\* state, the page and the rows read afterwards as they are in t
LeavesUnchanged(t, after) ==
    /\ after.filterState = t.filterState
    /\ after.currentPage = t.currentPage
    /\ rows(after) = rows(t)

\* C24: calling setFilter, clearFilter, toggleFilter or isFilterActive with a
\* column id that resolves to no column raises no fault and is treated as 'no
\* such column': the filter toggles are no-ops that leave the filter state,
\* currentPage and the rows read afterwards unchanged, and isFilterActive
\* returns false.
C24_Original ==
    \A c \in FilterColumnIds \ RegisteredIds(table) :
        \A v \in {Num(30)} :
            /\ LeavesUnchanged(table, setFilter(table, c, <<v>>))
            /\ LeavesUnchanged(table, clearFilter(table, c))
            /\ ~isFilterActive_raises(table, c)
            /\ ~isFilterActive(table, c, v)
            /\ LeavesUnchanged(table, toggleFilter(table, c, v))

-----------------------------------------------------------------------------
(* Arrays shared with the caller.  In this part the state is a record      *)
(* [engine, array, backing, origin]: the table, the elements of the array  *)
(* the caller holds, whether that array is the very array object the       *)
(* engine keeps in #originalData, and the call the caller got it from or   *)
(* gave it to.                                                             *)

\* new DataTable(config) by a caller that keeps config.data: the engine keeps
\* [...config.data], a new array
construct_NoCopy(config) ==
    [engine |-> constructor(config), array |-> config.data, backing |-> TRUE,
     origin |-> "constructor"]

construct(config) ==
    [engine |-> constructor(config), array |-> config.data, backing |-> FALSE,
     origin |-> "constructor"]

\* table.baseRows = A by a caller that keeps A: the engine keeps [...rows]
assignBaseRows(w, A) ==
    [engine |-> set_baseRows(w.engine, A), array |-> A, backing |-> FALSE,
     origin |-> "set baseRows"]

\* A = table.baseRows: return this.#originalData, the engine's own array
readBaseRows(w) ==
    [engine |-> w.engine, array |-> w.engine.originalData, backing |-> TRUE,
     origin |-> "get baseRows"]

\* A = table.rows: the slice is a new array
readRows(w) ==
    [engine |-> rows_after(w.engine), array |-> rows(w.engine), backing |-> FALSE,
     origin |-> "get rows"]

\* the caller changes its array in place to hold items: the engine's raw rows
\* change with it when it is the same array, and no flag is set
changeArray(w, items) ==
    [w EXCEPT !.array = items,
              !.engine.originalData = IF w.backing THEN items ELSE @]

\* a call of the table by the caller that involves none of its arrays
callEngine(w, after) == [w EXCEPT !.engine = after]

MaxArrayLen == 3

\* the row the caller pushes
PushedRow == RowOf(9, Al, Num(30))

\* A.push(row) of a row the array does not hold yet, A.pop(), A.reverse()
Changes(items) ==
    {Append(items, PushedRow) :
        k \in {j \in {1} \cap 1..(MaxArrayLen - Len(items)) :
                   \A i \in 1..Len(items) : items[i] # PushedRow}}
        \cup {SubSeq(items, 1, Len(items) - 1) : k \in {1} \cap 1..Len(items)}
        \cup {Reverse(items)}

AliasRows == << RowOf(1, Al, Num(30)), RowOf(2, Bo, Num(25)) >>

AliasConfigs ==
    { [data |-> AliasRows, columns |-> FilterColumns, pageSize |-> ps,
       initialSort |-> "", initialSortDirection |-> NULL, initialFilters |-> NoFilters,
       host |-> "runs"] : ps \in {1} }

AliasInit == \E config \in AliasConfigs : table = construct(config)

\* baseRows = A for the array the caller holds
AliasSetBaseRows == table' = assignBaseRows(table, table.array)

AliasGetBaseRows == table' = readBaseRows(table)

AliasGetRows == table' = readRows(table)

AliasChangeArray == \E items \in Changes(table.array) : table' = changeArray(table, items)

AliasReadTotalPages == table' = callEngine(table, totalPages_after(table.engine))

AliasSetCurrentPage == table' = callEngine(table, set_currentPage(table.engine, 2))

AliasToggleSort == table' = callEngine(table, toggleSort(table.engine, "age"))

AliasNext ==
    \/ AliasSetBaseRows
    \/ AliasGetBaseRows
    \/ AliasGetRows
    \/ AliasChangeArray
    \/ AliasReadTotalPages
    \/ AliasSetCurrentPage
    \/ AliasToggleSort

AliasSpec == AliasInit /\ [][AliasNext]_vars

\* changing the caller's array in any way leaves the raw rows and what rows
\* and totalPages return as they are
ChangesLeaveEngine(w) ==
    \A items \in Changes(w.array) :
        LET after == changeArray(w, items).engine
        IN  /\ after.originalData = w.engine.originalData
            /\ rows(after) = rows(w.engine)
            /\ totalPages(after) = totalPages(w.engine)
            /\ rows(set_baseRows(after, after.originalData))
                  = rows(set_baseRows(w.engine, w.engine.originalData))

\* C25: the engine holds its own copy of the raw rows: after construction
\* with an array A, or after assigning baseRows = A, adding, removing or
\* reordering elements of the caller's array A changes neither baseRows nor
\* any later value of rows or totalPages.
C25_EngineCopiesInput ==
    table.origin \in {"constructor", "set baseRows"} =>
        /\ ~table.backing
        /\ ChangesLeaveEngine(table)

\* the caller has assigned its array to baseRows and changed it afterwards:
\* it now holds more elements than the engine, whose filter cache is filled
C25_Witness ==
    /\ table.origin = "set baseRows"
    /\ table.array # table.engine.originalData
    /\ Len(table.array) > Len(table.engine.originalData)
    /\ ~table.engine.isFilterDirty
    /\ Len(table.engine.filteredData) >= 2

\* C26: no read accessor hands out a backing array of the engine: changing in
\* place (push, splice, reorder) the array returned by rows or by baseRows
\* does not change the engine's raw rows or caches, so later reads of rows,
\* baseRows and totalPages are the same as if the returned array had not been
\* touched.
C26_Original ==
    table.origin \in {"get baseRows", "get rows"} =>
        /\ ~table.backing
        /\ ChangesLeaveEngine(table)

-----------------------------------------------------------------------------
(* Properties of the recomputation.  A filter pass is the only step that   *)
(* clears #isFilterDirty and writes #filteredData, a sort pass the only    *)
(* step that clears #isSortDirty and writes #sortedData.                   *)

\* the step from t to after has performed a filter pass
FilterPassDone(t, after) ==
    (t.isFilterDirty /\ ~after.isFilterDirty) \/ after.filteredData # t.filteredData

\* the step from t to after has performed a sort pass
SortPassDone(t, after) ==
    (t.isSortDirty /\ ~after.isSortDirty) \/ after.sortedData # t.sortedData

\* the tables the calls of the mutators other than set currentPage lead to
AfterMutators(t) ==
    {set_baseRows(t, d) : d \in Datasets}
        \cup {set_globalFilter(t, value) : value \in GlobalFilterArgs}
        \cup {toggleSort(t, columnId) : columnId \in ColumnIds}
        \cup {setFilter(t, a[1], a[2]) : a \in SetFilterArgs}
        \cup {clearFilter(t, columnId) : columnId \in ClearFilterArgs}
        \cup {toggleFilter(t, a[1], a[2]) : a \in ToggleFilterArgs}

\* the same for the tables of the filter stage
FilterAfterMutators(t) ==
    {set_baseRows(t, d) : d \in {FilterRows, <<>>}}
        \cup {set_globalFilter(t, <<97, 108>>)}
        \cup {toggleSort(t, columnId) : columnId \in FilterColumnIds}
        \cup {setFilter(t, a[1], a[2]) : a \in FilterSetFilterArgs}
        \cup {clearFilter(t, columnId) : columnId \in FilterColumnIds}
        \cup {toggleFilter(t, "name", Str(Al))}

\* the tables the assignments to currentPage lead to: of the first page and
\* of a page behind the last
AfterSetCurrentPage(t) == {set_currentPage(t, page) : page \in {1, MaxPageArg}}

\* the reads of rows: the first one leaves both stages clean, having run each
\* stage once at most, and the next one runs none; a toggleSort runs no
\* filter pass and causes none in the read that follows
LazyReads(t) ==
    /\ ~rows_after(t).isFilterDirty /\ ~rows_after(t).isSortDirty
    /\ FilterPassDone(t, rows_after(t)) => t.isFilterDirty
    /\ SortPassDone(t, rows_after(t)) => (t.isSortDirty \/ t.isFilterDirty)
    /\ ~FilterPassDone(rows_after(t), rows_after(rows_after(t)))
    /\ ~SortPassDone(rows_after(t), rows_after(rows_after(t)))
    /\ \A columnId \in FilterColumnIds :
          LET after == toggleSort(t, columnId)
          IN  FilterPassDone(t, rows_after(after)) => t.isFilterDirty

\* C27 as stated: recomputation is lazy and happens once: no mutator performs
\* a filter pass or a sort pass, the first read of rows after a mutation
\* performs at most one filter pass and one sort pass, and any further reads
\* before the next mutation perform none; toggleSort alone never causes a
\* filter pass.
C27_Original ==
    /\ \A after \in FilterAfterMutators(table) \cup AfterSetCurrentPage(table) :
          ~FilterPassDone(table, after) /\ ~SortPassDone(table, after)
    /\ LazyReads(table)

\* C27, amended: no mutator performs a sort pass, and no mutator other than
\* set currentPage performs a filter pass; set currentPage performs a filter
\* pass exactly when the filter stage is dirty, to clamp against totalPages.
\* The first read of rows after a mutation performs at most one filter pass
\* and one sort pass, further reads perform none, and toggleSort alone never
\* causes a filter pass.
C27_LazyExceptSetCurrentPage ==
    /\ \A after \in FilterAfterMutators(table) :
          ~FilterPassDone(table, after) /\ ~SortPassDone(table, after)
    /\ \A after \in AfterSetCurrentPage(table) :
          /\ ~SortPassDone(table, after)
          /\ (table.isFilterDirty /\ ~after.isFilterDirty)
                <=> FilterPassDone(table, after)
          /\ ~after.isFilterDirty
    /\ LazyReads(table)

\* the filter stage is dirty over a cache that holds other rows than pass
\* now, the page is being set, and a sort is active with a clean sort cache
C27_Witness ==
    /\ table.isFilterDirty /\ ~table.isSortDirty
    /\ table.filteredData # FilterPass(table)
    /\ ActiveSort(table) /\ Len(table.sortedData) >= 2
    /\ \E after \in AfterSetCurrentPage(table) : FilterPassDone(table, after)

-----------------------------------------------------------------------------
(* Properties of the filter state                                          *)

\* every constructed table has exactly the entries of its registered columns,
\* seeded from initialFilters where the column is named there
SeededFromInitialFilters ==
    \A config \in Configs :
        LET t == constructor(config)
        IN  /\ DOMAIN t.filterState = RegisteredIds(t)
            /\ \A c \in RegisteredIds(t) :
                  t.filterState[c] =
                      IF c \in DOMAIN config.initialFilters
                      THEN {config.initialFilters[c][i] :
                               i \in 1..Len(config.initialFilters[c])}
                      ELSE {}

\* C28: in every reachable state the filter state has an entry for every
\* registered column id; after construction the entry of a column named in
\* initialFilters is exactly the set of the supplied values and every other
\* column's entry is empty; no mutator ever removes an entry.
C28_FilterEntries ==
    /\ RegisteredIds(table) \subseteq DOMAIN table.filterState
    /\ SeededFromInitialFilters
    /\ \A after \in AfterMutators(table) \cup AfterSetCurrentPage(table) :
          DOMAIN table.filterState \subseteq DOMAIN after.filterState

\* a table just constructed with initialFilters that name one of its columns
C28_Witness ==
    \E config \in Configs :
        /\ DOMAIN config.initialFilters = {"age"}
        /\ table = constructor(config)
        /\ table.filterState["age"] = {Num(30)}
        /\ table.filterState["name"] = {} /\ table.filterState["ageGroup"] = {}

\* the values toggled
ToggleValues == {Num(30), Str(Al), NaN}

\* C29: for a registered column c, toggleFilter(c, v) flips the membership of
\* v in c's filter set and changes nothing else in the filter state:
\* isFilterActive(c, v) after the call is the negation of its value before,
\* and calling toggleFilter(c, v) twice restores the filter set of c and hence
\* the set of rows that pass.
C29_Original ==
    \A c \in RegisteredIds(table) :
        \A v \in ToggleValues :
            LET once == toggleFilter(table, c, v)
                twice == toggleFilter(once, c, v)
                set == table.filterState[c]
            IN  /\ once.filterState[c] = IF v \in set THEN set \ {v} ELSE set \cup {v}
                /\ DOMAIN once.filterState = DOMAIN table.filterState
                /\ \A d \in DOMAIN table.filterState \ {c} :
                      once.filterState[d] = table.filterState[d]
                /\ isFilterActive(once, c, v) = ~isFilterActive(table, c, v)
                /\ twice.filterState[c] = set
                /\ PassingRows(twice) = PassingRows(table)

\* the lists of values handed to setFilter: none, one, and one with repeats
SetFilterLists == { <<>>, <<Num(25)>>, <<Num(30), Num(25), Num(30), NaN, NaN>> }

\* the filter entries of after are those of t, but for the entry of column c
OthersUnchanged(t, after, c) ==
    /\ DOMAIN after.filterState = DOMAIN t.filterState \cup {c}
    /\ \A d \in DOMAIN t.filterState \ {c} : after.filterState[d] = t.filterState[d]

\* the rows that pass when the filter state has no entry for column c
PassingIgnoring(t, c) ==
    PassingRows([t EXCEPT !.filterState = [d \in DOMAIN t.filterState \ {c} |->
                                              t.filterState[d]],
                          !.isFilterDirty = TRUE])

\* C30: setFilter(c, values) replaces the filter set of column c by exactly
\* the distinct elements of values and clearFilter(c) replaces it by the empty
\* set; both leave the filter sets of all other columns unchanged, and after
\* clearFilter(c) column c restricts no row.
C30_SetAndClearFilter ==
    \A c \in RegisteredIds(table) :
        /\ \A values \in SetFilterLists :
              LET after == setFilter(table, c, values)
              IN  /\ after.filterState[c] = {values[i] : i \in 1..Len(values)}
                  /\ OthersUnchanged(table, after, c)
        /\ LET after == clearFilter(table, c)
           IN  /\ after.filterState[c] = {}
               /\ OthersUnchanged(table, after, c)
               /\ PassingRows(after) = PassingIgnoring(table, c)

\* two columns are filtered, each by a set of its own; no row passes, and
\* clearing one column lets a row pass that the other column accepts
C30_Witness ==
    /\ table.filterState["age"] = {Num(30)}
    /\ table.filterState["name"] = {Str(Al)}
    /\ PassingRows(table) = <<>>
    /\ Len(PassingRows(clearFilter(table, "age"))) = 1
    /\ clearFilter(table, "age").filterState["name"] = {Str(Al)}

-----------------------------------------------------------------------------
(* Properties of the sort state under the other mutators                   *)

\* the tables the mutators other than toggleSort lead to, for the tables of
\* the sort stage
SortAfterOtherMutators(t) ==
    {set_baseRows(t, d) : d \in SortDatasets}
        \cup {set_globalFilter(t, <<98, 111>>), set_globalFilter(t, <<>>)}
        \cup {setFilter(t, "customSort", <<Num(3), Num(1)>>)}
        \cup {clearFilter(t, "customSort")}
        \cup {toggleFilter(t, "customSort", Num(3))}
        \cup {set_currentPage(t, page) : page \in {1, 2}}

C32_UnsortedIsInsertionOrder ==
    NoActiveSort(table) =>
        /\ rows_after(table).sortedData = FilterPass(table)
        /\ ReadAcrossPages(table) = FilterPass(table)
        /\ \A c \in SortColumnIds :
              LET after == ToggleTimes(table, c, 3)
              IN  /\ NoActiveSort(after)
                  /\ rows(after) = rows(table)
                  /\ rows_after(after).sortedData = rows_after(table).sortedData

\* the third toggle has cleared the direction and the rows have been read: the
\* cache holds several rows in raw order, which one more toggle would put in
\* another order
C32_Witness ==
    /\ table.sortState.columnId # NULL /\ table.sortState.direction = NULL
    /\ ~table.isFilterDirty /\ ~table.isSortDirty
    /\ Len(table.sortedData) >= 2
    /\ table.sortedData = table.filteredData
    /\ rows_after(toggleSort(table, table.sortState.columnId)).sortedData
          # table.sortedData

-----------------------------------------------------------------------------
(* Properties of the dirty flags                                           *)

\* a filter pass clears filterDirty and sets sortDirty in the same step; a
\* clean sort cache was computed from the filtered data now cached; a read of
\* rows leaves both flags false and the view of the rows that pass now
FlagsCoupled(t) ==
    /\ t.isFilterDirty =>
          (~applyFilters(t).isFilterDirty /\ applyFilters(t).isSortDirty)
    /\ ~t.isSortDirty => t.sortedData = SortPass(t, t.filteredData)
    /\ ~rows_after(t).isFilterDirty /\ ~rows_after(t).isSortDirty
    /\ rows_after(t).filteredData = FilterPass(t)
    /\ rows_after(t).sortedData = SortPass(t, FilterPass(t))
    /\ ~totalPages_after(t).isFilterDirty

\* C33 as stated: every filter pass that clears filterDirty sets sortDirty in
\* the same step, no read returns a sortedData computed from a filteredData
\* older than the current one, after a read of rows both flags are false, and
\* after a read of totalPages alone filterDirty is false and sortDirty is true.
C33_Original ==
    /\ FlagsCoupled(table)
    /\ totalPages_after(table).isSortDirty

\* C33 (amended): as above, but a read of totalPages leaves sortDirty true only
\* when it ran a filter pass or the sort stage was dirty already; on a clean
\* cache it changes neither flag.
C33_FlagsCoupled ==
    /\ FlagsCoupled(table)
    /\ totalPages_after(table).isSortDirty
          = (table.isFilterDirty \/ table.isSortDirty)

\* a filter call over a cached sorted view: the filter stage is dirty, the sort
\* stage is not, and the read of totalPages that follows marks it dirty
C33_Witness ==
    /\ table.isFilterDirty /\ ~table.isSortDirty
    /\ ActiveSort(table)
    /\ Len(table.sortedData) >= 2
    /\ FilterPass(table) # table.filteredData
    /\ totalPages_after(table).isSortDirty
    /\ rows_after(table).sortedData # table.sortedData

-----------------------------------------------------------------------------
(* Properties of the construction                                          *)

\* the sort state a configuration asks for
InitialSortState(config) ==
    IF config.initialSort # ""
    THEN [columnId |-> config.initialSort,
          direction |-> IF config.initialSortDirection = NULL THEN "asc"
                        ELSE config.initialSortDirection]
    ELSE [columnId |-> NULL, direction |-> NULL]

\* the rows of a configuration whose values are among the initial filter
\* values of every column it names
InitiallyPassing(t, config) ==
    SelectSeq(config.data,
              LAMBDA row : \A c \in DOMAIN config.initialFilters :
                               \E i \in 1..Len(config.initialFilters[c]) :
                                   getValue(t, row, c) = config.initialFilters[c][i])

\* these rows in the order a configuration asks for
InitialView(t, config) ==
    IF config.initialSort # ""
    THEN ArraySort(t, InitiallyPassing(t, config), config.initialSort,
                   InitialSortState(config).direction)
    ELSE InitiallyPassing(t, config)

-----------------------------------------------------------------------------
(* Properties of a faulting assignment                                     *)

\* the pattern that the string read back from globalFilter stands for
PatternOf(value) ==
    IF TrimNonEmpty(value) THEN [set |-> TRUE, lit |-> RegExpLiteral(value)]
    ELSE NoRegex

\* C35 as stated: when assigning a malformed global-filter pattern raises, the
\* engine state is left as it was: the globalFilter string read back, the
\* pattern used for matching, currentPage and the dirty flags are unchanged,
\* so the string returned by globalFilter always corresponds to the pattern
\* that rows is filtered with.
C35_Original ==
    /\ \A value \in GlobalFilterArgs :
          set_globalFilter_raises(value) =>
              LET after == set_globalFilter(table, value)
              IN  /\ after.globalFilter = table.globalFilter
                  /\ after.globalFilterRegex = table.globalFilterRegex
                  /\ after.currentPage = table.currentPage
                  /\ after.isFilterDirty = table.isFilterDirty
                  /\ after.isSortDirty = table.isSortDirty
    /\ table.globalFilterRegex = PatternOf(table.globalFilter)

-----------------------------------------------------------------------------
(* Properties of the page and the filter cache                             *)

\* C36 as stated: in every reachable state currentPage > 1 implies that the
\* filter cache is clean; every mutator that marks the filter stage dirty also
\* sets currentPage to 1, and the only way to raise currentPage runs a filter
\* pass first; hence canGoBack never evaluates a stale cache.
C36_Original ==
    /\ table.currentPage > 1 => ~table.isFilterDirty
    /\ \A after \in AfterMutators(table) :
          after.isFilterDirty => after.currentPage = 1
    /\ \A page \in PageArgs :
          LET after == set_currentPage(table, page)
          IN  after.currentPage > table.currentPage => ~after.isFilterDirty
    /\ canGoBack(table) => table.filteredData = FilterPass(table)

\* the tables a change of the filters or of the raw rows leads to
AfterFilterChange(t) ==
    { set_baseRows(t, FilterRows), set_baseRows(t, <<>>),
      set_globalFilter(t, <<97, 108>>),
      setFilter(t, "age", <<Num(30), Num(25)>>),
      clearFilter(t, "age"),
      toggleFilter(t, "name", Str(Al)) }

\* C37: assigning currentPage directly after a filter-changing mutator or a
\* baseRows assignment, with no read in between, clamps against the page count
\* of the newly filtered data and not against the count cached before the
\* mutation.
C37_ClampsAgainstNewCount ==
    \A mutated \in AfterFilterChange(table) :
        LET passing == FilterPass(mutated)
            pages == PageCount(Len(passing), mutated.pageSize)
        IN  \A page \in {2, MaxPageArg} :
                LET after == set_currentPage(mutated, page)
                IN  /\ after.currentPage = Max(1, Min(page, pages))
                    /\ after.filteredData = passing

\* a filter call has just been made over a cache of more pages than the rows
\* that pass now fill, and the page is then set beyond them
C37_Witness ==
    /\ table.isFilterDirty /\ table.pageSize > 0
    /\ PageCount(Len(table.filteredData), table.pageSize)
          > PageCount(FilteredCount(table), table.pageSize)
    /\ FilteredCount(table) > 0
    /\ set_currentPage(table, MaxPageArg).currentPage
          = PageCount(FilteredCount(table), table.pageSize)

-----------------------------------------------------------------------------
(* Properties of the pages taken together                                  *)

\* the number of positions of s that hold x
Occurrences(s, x) == Cardinality({i \in 1..Len(s) : s[i] = x})

\* the rows read on each of the pages 1 .. totalPages
PageRows(t) == [p \in 1..totalPages(t) |-> rows(set_currentPage(t, p))]

RECURSIVE Concat(_, _)
\* the first n of these, one after the other
Concat(pages, n) == IF n = 0 THEN <<>> ELSE Concat(pages, n - 1) \o pages[n]

\* C38: for a positive pageSize the pages partition the view: the rows of the
\* pages 1 .. totalPages, one after the other, are the sorted filtered sequence
\* with every filtered row exactly once, every page has at most pageSize rows,
\* and rows is non-empty whenever at least one row passes the filters.
C38_PagesPartitionView ==
    table.pageSize > 0 =>
        LET passing == FilterPass(table)
            pages == PageRows(table)
            all == Concat(pages, Len(pages))
        IN  /\ all = SortPass(table, passing)
            /\ Len(all) = Len(passing)
            /\ \A i \in 1..Len(passing) : Occurrences(all, passing[i]) = 1
            /\ \A p \in DOMAIN pages : Len(pages[p]) <= table.pageSize
            /\ Len(passing) > 0 => rows(table) # <<>>

\* the second of two pages of a sorted view is selected and holds fewer rows
\* than the first
C38_Witness ==
    /\ table.pageSize > 0 /\ ActiveSort(table)
    /\ ~table.isFilterDirty /\ ~table.isSortDirty
    /\ table.currentPage = 2 /\ totalPages(table) = 2
    /\ Len(rows(table)) = 1
    /\ table.sortedData # table.filteredData

-----------------------------------------------------------------------------
(* Properties of the sort column                                           *)

\* C39 as stated: in every reachable state the active sort column is either
\* null or the id of a registered column whose sortable flag is not false,
\* including the states reached from a constructor call whose initialSort
\* names an unsortable or unknown column.
C39_Original ==
    \/ table.sortState.columnId = NULL
    \/ Sortable(table, table.sortState.columnId)

-----------------------------------------------------------------------------
(* The engine without caches: the class that filters and sorts on every    *)
(* read.  Its object has the fields rawData, columns, pageSize,            *)
(* currentPage, sortState ([column, direction]), filterState (column key   *)
(* -> set of values), globalFilter and host.  Columns are found by key.    *)

\* columns.find((col) => col.key === key)
U_getColumnDef(u, key) ==
    IF \E i \in 1..Len(u.columns) : u.columns[i].key = key
    THEN u.columns[CHOOSE i \in 1..Len(u.columns) :
                      /\ u.columns[i].key = key
                      /\ \A j \in 1..(i - 1) : u.columns[j].key # key]
    ELSE UndefinedCol

\* colDef && colDef.getValue ? colDef.getValue(row) : row[key]
U_getValue(u, row, key) ==
    LET colDef == U_getColumnDef(u, key)
    IN  IF colDef # UndefinedCol /\ colDef.getValue # "none"
        THEN ApplyGetValue(colDef.getValue, row)
        ELSE IF key \in DOMAIN row THEN row[key] ELSE Undefined

\* the pattern is compiled from the string at every call
U_matchesGlobalFilter(u, row) ==
    \/ ~TrimNonEmpty(u.globalFilter)
    \/ \E i \in 1..Len(u.columns) :
          LET value == U_getValue(u, row, u.columns[i].key)
          IN  value.t = "string" /\ RegExpTest(RegExpLiteral(u.globalFilter), value.s)

U_matchesFilters(u, row) ==
    \A key \in DOMAIN u.filterState :
        LET filterSet == u.filterState[key]
            colDef == U_getColumnDef(u, key)
            value == U_getValue(u, row, key)
        IN  \/ filterSet = {}
            \/ IF colDef # UndefinedCol /\ colDef.filter # "none"
               THEN \E filterValue \in filterSet :
                        ApplyFilter(colDef.filter, value, filterValue, row)
               ELSE value \in filterSet

\* get #filteredData
U_filteredData(u) ==
    SelectSeq(u.rawData,
              LAMBDA row : U_matchesGlobalFilter(u, row) /\ U_matchesFilters(u, row))

\* Array.prototype.indexOf: 0-based, -1 when x is not an element
IndexOf(s, x) ==
    IF \E i \in 1..Len(s) : s[i] = x
    THEN (CHOOSE i \in 1..Len(s) : s[i] = x /\ \A j \in 1..(i - 1) : s[j] # x) - 1
    ELSE 0 - 1

\* the comparator of the sorted branch
U_Compare(u, a, b) ==
    LET colDef == U_getColumnDef(u, u.sortState.column)
        aVal == U_getValue(u, a, u.sortState.column)
        bVal == U_getValue(u, b, u.sortState.column)
    IN  IF colDef # UndefinedCol /\ colDef.sorter # "none"
        THEN IF u.sortState.direction = "asc"
             THEN ToOrder(ApplySorter(colDef.sorter, a, b))
             ELSE ToOrder(ApplySorter(colDef.sorter, b, a))
        ELSE IF JsLt(aVal, bVal) THEN (IF u.sortState.direction = "asc" THEN -1 ELSE 1)
        ELSE IF JsGt(aVal, bVal) THEN (IF u.sortState.direction = "asc" THEN 1 ELSE -1)
        ELSE 0

\* get #sortedAndFilteredData: toSorted by the active sort, or by the position
\* in the raw rows
U_sortedAndFilteredData(u) ==
    LET data == U_filteredData(u)
    IN  IF u.sortState.column # NULL /\ u.sortState.direction # NULL
        THEN SortBy(u.host, data, [p \in Pairs(data) |-> U_Compare(u, p[1], p[2])])
        ELSE SortBy(u.host, data,
                    [p \in Pairs(data) |->
                        IndexOf(u.rawData, p[1]) - IndexOf(u.rawData, p[2])])

\* get #isEmpty
U_isEmpty(u) == Len(U_filteredData(u)) = 0

\* get rows
U_rows(u) ==
    ArraySlice(U_sortedAndFilteredData(u),
               (u.currentPage - 1) * u.pageSize, u.currentPage * u.pageSize)

\* get totalPages
U_totalPages(u) == Max(1, CeilDiv(Len(U_filteredData(u)), u.pageSize))

\* set currentPage(page)
U_set_currentPage(u, page) ==
    [u EXCEPT !.currentPage = Max(1, Min(page, U_totalPages(u)))]

\* get canGoBack
U_canGoBack(u) == u.currentPage > 1 /\ ~U_isEmpty(u)

\* get canGoForward
U_canGoForward(u) == u.currentPage < U_totalPages(u) /\ ~U_isEmpty(u)

\* set globalFilter(value)
U_set_globalFilter(u, value) == [u EXCEPT !.globalFilter = value, !.currentPage = 1]

\* toggleSort(column)
U_toggleSort(u, column) ==
    LET colDef == U_getColumnDef(u, column)
    IN  IF colDef = UndefinedCol \/ colDef.sortable = "false" THEN u
        ELSE [u EXCEPT
                !.sortState =
                    IF u.sortState.column = column
                    THEN [column |-> column,
                          direction |-> IF u.sortState.direction = "asc" THEN "desc"
                                        ELSE IF u.sortState.direction = "desc" THEN NULL
                                        ELSE "asc"]
                    ELSE [column |-> column, direction |-> "asc"]]

\* getSortState(column)
U_getSortState(u, column) ==
    IF u.sortState.column = column THEN u.sortState.direction ELSE NULL

\* this.#filterState[column] = set
U_WithFilter(u, column, set) ==
    [c \in (DOMAIN u.filterState) \cup {column} |->
        IF c = column THEN set ELSE u.filterState[c]]

\* setFilter(column, values)
U_setFilter(u, column, values) ==
    [u EXCEPT !.filterState = U_WithFilter(u, column, SetOf(values)),
              !.currentPage = 1]

\* clearFilter(column)
U_clearFilter(u, column) ==
    [u EXCEPT !.filterState = U_WithFilter(u, column, {}), !.currentPage = 1]

\* toggleFilter(column, value): currentFilter.has raises when the column has no
\* entry; Set.prototype.delete finds NaN
U_toggleFilter(u, column, value) ==
    IF column \notin DOMAIN u.filterState THEN u
    ELSE [u EXCEPT !.filterState =
                       U_WithFilter(u, column,
                                    IF value \in u.filterState[column]
                                    THEN u.filterState[column] \ {value}
                                    ELSE u.filterState[column] \cup {value}),
                   !.currentPage = 1]

\* new DataTable(config) of this class
U_constructor(config) ==
    [rawData |-> config.data,
     columns |-> config.columns,
     pageSize |-> IF config.pageSize # 0 THEN config.pageSize ELSE DefaultPageSize,
     currentPage |-> 1,
     sortState |-> IF config.initialSort # ""
                   THEN [column |-> config.initialSort,
                         direction |-> IF config.initialSortDirection # NULL
                                       THEN config.initialSortDirection ELSE "asc"]
                   ELSE [column |-> NULL, direction |-> NULL],
     filterState |-> [key \in {config.columns[i].key : i \in 1..Len(config.columns)} |->
                        IF key \in DOMAIN config.initialFilters
                        THEN SetOf(config.initialFilters[key]) ELSE {}],
     globalFilter |-> <<>>,
     host |-> config.host]

-----------------------------------------------------------------------------
(* The two engines side by side                                            *)

\* name (not sortable) and age; every column's id is its key
EquivColumns ==
    << Col("name", "name", "false", "none"),
       Col("age", "age", "true", "none") >>

EquivConfigs ==
    { [data |-> <<Row(1, Al, 30), Row(2, Bo, 25), Row(3, Cal, 30)>>,
       columns |-> EquivColumns, pageSize |-> ps,
       initialSort |-> srt, initialSortDirection |-> NULL, initialFilters |-> f,
       host |-> "runs"] :
        ps \in {1, 2}, srt \in {"", "age"},
        f \in {NoFilters, [id \in {"age"} |-> <<Num(30)>>]} }

EquivColumnIds == {"name", "age", "nope"}

EquivSetFilterArgs == { <<"age", <<Num(25)>> >>, <<"nope", <<Num(30)>> >> }

EquivToggleFilterArgs == { <<"name", Str(Al)>>, <<"age", NaN>>, <<"nope", Num(30)>> }

\* '' and 'al'
EquivGlobalFilterArgs == { <<>>, <<97, 108>> }

EquivPageArgs == {1, 2, 3}

EquivInit ==
    \E config \in EquivConfigs :
        table = [cached |-> constructor(config), uncached |-> U_constructor(config)]

\* reading rows: only the cached engine changes (its caches)
EquivReadRows ==
    table' = [table EXCEPT !.cached = rows_after(table.cached)]

EquivReadTotalPages ==
    table' = [table EXCEPT !.cached = totalPages_after(table.cached)]

EquivSetCurrentPage ==
    \E page \in EquivPageArgs :
        table' = [cached |-> set_currentPage(table.cached, page),
                  uncached |-> U_set_currentPage(table.uncached, page)]

EquivSetGlobalFilter ==
    \E value \in EquivGlobalFilterArgs :
        table' = [cached |-> set_globalFilter(table.cached, value),
                  uncached |-> U_set_globalFilter(table.uncached, value)]

EquivToggleSort ==
    \E columnId \in EquivColumnIds :
        table' = [cached |-> toggleSort(table.cached, columnId),
                  uncached |-> U_toggleSort(table.uncached, columnId)]

EquivSetFilter ==
    \E a \in EquivSetFilterArgs :
        table' = [cached |-> setFilter(table.cached, a[1], a[2]),
                  uncached |-> U_setFilter(table.uncached, a[1], a[2])]

EquivClearFilter ==
    \E columnId \in EquivColumnIds :
        table' = [cached |-> clearFilter(table.cached, columnId),
                  uncached |-> U_clearFilter(table.uncached, columnId)]

EquivToggleFilter ==
    \E a \in EquivToggleFilterArgs :
        table' = [cached |-> toggleFilter(table.cached, a[1], a[2]),
                  uncached |-> U_toggleFilter(table.uncached, a[1], a[2])]

EquivNext ==
    \/ EquivReadRows
    \/ EquivReadTotalPages
    \/ EquivSetCurrentPage
    \/ EquivSetGlobalFilter
    \/ EquivToggleSort
    \/ EquivSetFilter
    \/ EquivClearFilter
    \/ EquivToggleFilter

EquivSpec == EquivInit /\ [][EquivNext]_vars

\* what a caller reads from the cached engine
Observed(t) ==
    [rows |-> rows(t), totalPages |-> totalPages(t), currentPage |-> t.currentPage,
     canGoBack |-> canGoBack(t), canGoForward |-> canGoForward(t),
     sortState |-> [c \in EquivColumnIds |-> getSortState(t, c)]]

\* what a caller reads from the engine without caches
U_Observed(u) ==
    [rows |-> U_rows(u), totalPages |-> U_totalPages(u), currentPage |-> u.currentPage,
     canGoBack |-> U_canGoBack(u), canGoForward |-> U_canGoForward(u),
     sortState |-> [c \in EquivColumnIds |-> U_getSortState(u, c)]]

====
